---- MODULE Spec2Model ----
(***************************************************************************)
(* Model of the trackly fleet-management backend: the Vehicle aggregate's  *)
(* in-memory mutators (domain package), the create-vehicle handler and the *)
(* Couchbase vehicle repository it talks to.                               *)
(***************************************************************************)
EXTENDS Integers, Sequences, FiniteSets, TLC

VARIABLES
    Pictures,     \* Vehicle.Pictures of the in-memory aggregate: sequence of [ID, IsMain]
    Documents,    \* Vehicle.Documents of the in-memory aggregate: sequence of [ID]
    last,         \* the last mutator call: its arguments, its error and the lists before it
    now,          \* the wall clock, in whole seconds
    vehicles,     \* the collection's vehicle documents: vehicle ID -> Vehicle
    vinIndex,     \* the collection's lookup documents: key vin::<VIN> -> vehicle_id
    pc,           \* per request: where its create-vehicle handler stands
    req,          \* per request: the CreateVehicleRequest bound from the body
    ref,          \* per request: the vehicle_id read from the lookup document
    veh,          \* per request: the Vehicle the handler built
    resp,         \* per request: the response written
    got,          \* per request: what a GetVehicle with the response's ID returned
    stored,       \* per request: the vehicle stored under its normalized VIN on arrival
    fresh,        \* per request: its vin:: key was absent when its transaction ran
    tmpl,         \* the predefined errors' mutable fields: name -> [Details, Cause]
    srv,          \* per request: where the dispatch adapter and its handler stand
    cls,          \* the storage error handed to the classifiers and what they returned
    bnd,          \* the binder's input sources and the request it filled
    blobs,        \* the blob container: the file names stored in it
    docreq,       \* the add-document or delete-document request being handled
    calc          \* the arguments of a computation on values and dates, and its result

domVars == <<Pictures, Documents, last>>

storeVars == <<vehicles, vinIndex>>

reqVars == <<pc, req, ref, veh, resp, got, stored, fresh>>

createVars == <<now, vehicles, vinIndex, pc, req, ref, veh, resp, got, stored, fresh>>

docVars == <<blobs, docreq, calc>>

svcVars == <<tmpl, srv, cls, bnd, blobs, docreq, calc>>

vars == <<Pictures, Documents, last, now, vehicles, vinIndex,
          pc, req, ref, veh, resp, got, stored, fresh, tmpl, srv, cls, bnd,
          blobs, docreq, calc>>

----------------------------------------------------------------------------
(* Bounds *)

NumPicIDs == 3
NumDocIDs == 2
NumReqs == 2
MaxClock == 2
MaxPad == 1
MaxWords == 4
MaxUploads == 2
TicksPerDay == 4
MaxLag == 1
HorizonDays == 61

PicIDs == 1..NumPicIDs
DocIDs == 1..NumDocIDs

----------------------------------------------------------------------------
(* Helpers on sequences *)

\* s with the element at index i removed: append(s[:i], s[i+1:]...)
RemoveAt(s, i) == [k \in 1..(Len(s) - 1) |-> IF k < i THEN s[k] ELSE s[k + 1]]

\* index of the first element with the given ID, 0 when there is none
RECURSIVE IndexFrom(_, _, _)
IndexFrom(s, id, k) ==
    IF k > Len(s) THEN 0
    ELSE IF s[k].ID = id THEN k
    ELSE IndexFrom(s, id, k + 1)

IndexOfID(s, id) == IndexFrom(s, id, 1)

HasID(s, id) == \E k \in 1..Len(s) : s[k].ID = id

----------------------------------------------------------------------------
(* Vehicle aggregate mutators (domain package).  Each returns the new list  *)
(* and the error; "nil" is no error.                                        *)

\* A SetMainPicture that sets the match and forgets to unset the others
Mut_SetMainPicture_KeepOthers(pics, pictureID) ==
    [list |-> [k \in 1..Len(pics) |->
                 [pics[k] EXCEPT !.IsMain = (pics[k].IsMain \/ pics[k].ID = pictureID)]],
     err  |-> IF HasID(pics, pictureID) THEN "nil" ELSE "not_found"]

\* SetMainPicture: one pass that sets the match and unsets every other picture
Vehicle_SetMainPicture(pics, pictureID) ==
    [list |-> [k \in 1..Len(pics) |-> [pics[k] EXCEPT !.IsMain = (pics[k].ID = pictureID)]],
     err  |-> IF HasID(pics, pictureID) THEN "nil" ELSE "not_found"]

\* An AddDocument without the duplicate-ID check
Mut_AddDocument_NoDupCheck(docs, doc) ==
    [list |-> Append(docs, doc), err |-> "nil"]

Vehicle_AddDocument(docs, doc) ==
    IF HasID(docs, doc.ID)
    THEN [list |-> docs, err |-> "exists"]
    ELSE [list |-> Append(docs, doc), err |-> "nil"]

\* An AddPicture that stores the caller's IsMain also for the first picture
Mut_AddPicture_NoForceMain(pics, pic) ==
    IF HasID(pics, pic.ID)
    THEN [list |-> pics, err |-> "exists"]
    ELSE [list |-> Append(pics, pic), err |-> "nil"]

Vehicle_AddPicture(pics, pic) ==
    IF HasID(pics, pic.ID)
    THEN [list |-> pics, err |-> "exists"]
    ELSE [list |-> Append(pics, IF Len(pics) = 0 THEN [pic EXCEPT !.IsMain = TRUE] ELSE pic),
          err  |-> "nil"]

\* A RemoveDocument whose loop index falls through to the last element on no match
Mut_RemoveDocument_DropsLast(docs, documentID) ==
    LET i == IndexOfID(docs, documentID) IN
    IF i = 0
    THEN [list |-> IF Len(docs) > 0 THEN RemoveAt(docs, Len(docs)) ELSE docs,
          err  |-> "not_found"]
    ELSE [list |-> RemoveAt(docs, i), err |-> "nil"]

Vehicle_RemoveDocument(docs, documentID) ==
    LET i == IndexOfID(docs, documentID) IN
    IF i = 0
    THEN [list |-> docs, err |-> "not_found"]
    ELSE [list |-> RemoveAt(docs, i), err |-> "nil"]

\* A RemovePicture without the promotion of the first remaining picture
Mut_RemovePicture_NoPromote(pics, pictureID) ==
    LET i == IndexOfID(pics, pictureID) IN
    IF i = 0
    THEN [list |-> pics, err |-> "not_found"]
    ELSE [list |-> RemoveAt(pics, i), err |-> "nil"]

Vehicle_RemovePicture(pics, pictureID) ==
    LET i == IndexOfID(pics, pictureID) IN
    IF i = 0
    THEN [list |-> pics, err |-> "not_found"]
    ELSE LET wasMain == pics[i].IsMain
             rest    == RemoveAt(pics, i)
         IN  [list |-> IF wasMain /\ Len(rest) > 0
                       THEN [rest EXCEPT ![1].IsMain = TRUE]
                       ELSE rest,
              err  |-> "nil"]

\* GetMainPicture: the first picture flagged main, or "none"
Vehicle_GetMainPicture(pics) ==
    IF \E k \in 1..Len(pics) : pics[k].IsMain
    THEN pics[CHOOSE k \in 1..Len(pics) :
                 pics[k].IsMain /\ \A j \in 1..(k - 1) : ~pics[j].IsMain]
    ELSE "none"

----------------------------------------------------------------------------
(* Strings: sequences of one-character strings *)

SP == " "

Rep(c, n) == [i \in 1..n |-> c]

Pad(l, s, r) == Rep(SP, l) \o s \o Rep(SP, r)

UpperChar(c) ==
    CASE c = "a" -> "A" [] c = "b" -> "B" [] c = "c" -> "C" [] OTHER -> c

LowerChar(c) ==
    CASE c = "A" -> "a" [] c = "B" -> "b" [] c = "C" -> "c" [] OTHER -> c

\* strings.ToUpper, strings.ToLower
ToUpper(s) == [i \in 1..Len(s) |-> UpperChar(s[i])]

ToLower(s) == [i \in 1..Len(s) |-> LowerChar(s[i])]

\* strings.TrimSpace: leading and trailing blanks removed, inner ones kept
RECURSIVE TrimSpace(_)
TrimSpace(s) ==
    IF Len(s) = 0 THEN s
    ELSE IF s[1] = SP THEN TrimSpace(Tail(s))
    ELSE IF s[Len(s)] = SP THEN TrimSpace(SubSeq(s, 1, Len(s) - 1))
    ELSE s

----------------------------------------------------------------------------
(* Request validation: the validate tags of CreateVehicleRequest.  The      *)
(* length tags count the characters of the field as received.               *)

VinLen == 17
MakeMax == 50
PlateMax == 20
NameMax == 100

\* the email tag: local@label.label, no blanks anywhere
IsEmail(s) ==
    /\ \A i \in 1..Len(s) : s[i] # SP
    /\ Cardinality({i \in 1..Len(s) : s[i] = "@"}) = 1
    /\ \E i \in 2..Len(s) :
          /\ s[i] = "@"
          /\ \E j \in (i + 2)..(Len(s) - 1) : s[j] = "."
          /\ s[i + 1] # "."
          /\ s[Len(s)] # "."

\* validator.Validate(req): the set of fields that fail their tags
Validate(q) ==
    {f \in {"vin", "make", "license_plate", "owner_name", "owner_email"} :
        \/ f = "vin" /\ Len(q.VIN) # VinLen
        \/ f = "make" /\ (Len(q.Make) < 1 \/ Len(q.Make) > MakeMax)
        \/ f = "license_plate" /\ Len(q.LicensePlate) > PlateMax
        \/ f = "owner_name" /\ (Len(q.OwnerName) < 1 \/ Len(q.OwnerName) > NameMax)
        \/ f = "owner_email" /\ ~IsEmail(q.OwnerEmail)}

----------------------------------------------------------------------------
(* Predefined errors and their rendering.  Type, code and HTTP status are   *)
(* fixed at construction; a response is determined by which one is returned. *)

ErrInvalidInput == [Type |-> "validation", Code |-> "INVALID_INPUT", HTTPStatus |-> 400]

ErrResourceNotFound == [Type |-> "not_found", Code |-> "RESOURCE_NOT_FOUND", HTTPStatus |-> 404]

ErrResourceExists == [Type |-> "conflict", Code |-> "RESOURCE_EXISTS", HTTPStatus |-> 409]

ErrDatabaseQuery == [Type |-> "internal", Code |-> "DATABASE_QUERY_ERROR", HTTPStatus |-> 500]

NoID == <<>>

NoVehicle ==
    [ID |-> NoID, VIN |-> <<>>, Make |-> <<>>, LicensePlate |-> <<>>,
     OwnerName |-> <<>>, OwnerEmail |-> <<>>, CreatedAt |-> 0, UpdatedAt |-> 0,
     UpdatedBy |-> "", Documents |-> <<>>, Pictures |-> <<>>]

NoRequest ==
    [VIN |-> <<>>, Make |-> <<>>, LicensePlate |-> <<>>, OwnerName |-> <<>>, OwnerEmail |-> <<>>]

NoResponse ==
    [written |-> FALSE, status |-> 0, type |-> "", code |-> "", repoErr |-> "",
     ID |-> NoID, VIN |-> <<>>, CreatedAt |-> 0]

\* HandleError on an AppError: its status, type and code
HandleError(appErr, repoErr) ==
    [written |-> TRUE, status |-> appErr.HTTPStatus, type |-> appErr.Type,
     code |-> appErr.Code, repoErr |-> repoErr,
     ID |-> NoID, VIN |-> <<>>, CreatedAt |-> 0]

\* c.JSON(res) of a CreateVehicleResponse
RenderCreated(v) ==
    [written |-> TRUE, status |-> 200, type |-> "", code |-> "", repoErr |-> "",
     ID |-> v.ID, VIN |-> v.VIN, CreatedAt |-> v.CreatedAt]

----------------------------------------------------------------------------
(* Domain factory and the Couchbase repository *)

\* GenerateVehicleID: "VEH_" and the clock formatted to the second
GenerateVehicleID(t) == <<"VEH", t>>

\* the Vehicle literal of CreateVehicleHandler.Handle
BuildVehicle(q, t) ==
    [ID           |-> GenerateVehicleID(t),
     VIN          |-> ToUpper(TrimSpace(q.VIN)),
     Make         |-> TrimSpace(q.Make),
     LicensePlate |-> ToUpper(TrimSpace(q.LicensePlate)),
     OwnerName    |-> TrimSpace(q.OwnerName),
     OwnerEmail   |-> ToLower(TrimSpace(q.OwnerEmail)),
     CreatedAt    |-> t,
     UpdatedAt    |-> t,
     UpdatedBy    |-> "",
     Documents    |-> <<>>,
     Pictures     |-> <<>>]

\* A CreateVehicle whose two inserts are not one transaction: the lookup
\* document stays when the insert of the vehicle document fails
Mut_CreateVehicle_NoRollback(vs, idx, v, t) ==
    LET w == [v EXCEPT !.CreatedAt = t, !.UpdatedAt = t] IN
    IF v.VIN \in DOMAIN idx
    THEN [vehicles |-> vs, vinIndex |-> idx, err |-> "RESOURCE_EXISTS", vehicle |-> w]
    ELSE IF v.ID \in DOMAIN vs
    THEN [vehicles |-> vs, vinIndex |-> (v.VIN :> v.ID) @@ idx,
          err |-> "RESOURCE_EXISTS", vehicle |-> w]
    ELSE [vehicles |-> (v.ID :> w) @@ vs, vinIndex |-> (v.VIN :> v.ID) @@ idx,
          err |-> "nil", vehicle |-> w]

\* VehicleRepository.CreateVehicle: stamps the vehicle, then inserts the lookup
\* document vin::<VIN> and the vehicle document in one transaction; an insert
\* on an existing key fails and the transaction leaves nothing behind
Repo_CreateVehicle(vs, idx, v, t) ==
    LET w == [v EXCEPT !.CreatedAt = t, !.UpdatedAt = t] IN
    IF v.VIN \in DOMAIN idx \/ v.ID \in DOMAIN vs
    THEN [vehicles |-> vs, vinIndex |-> idx, err |-> "RESOURCE_EXISTS", vehicle |-> w]
    ELSE [vehicles |-> (v.ID :> w) @@ vs, vinIndex |-> (v.VIN :> v.ID) @@ idx,
          err |-> "nil", vehicle |-> w]

\* VehicleRepository.GetVehicle
Repo_GetVehicle(vs, id) ==
    IF id \in DOMAIN vs
    THEN [vehicle |-> vs[id], err |-> "nil"]
    ELSE [vehicle |-> NoVehicle, err |-> "RESOURCE_NOT_FOUND"]

----------------------------------------------------------------------------
(* Request inputs *)

Reqs == 1..NumReqs

VinA == Rep("A", VinLen)
VinB == Rep("B", VinLen)

EmailCore == <<"a", "@", "b", ".", "c">>
MakeCore == <<"A", "b">>
PlateCore == <<"a", "b", "c">>
NameCore == <<"A", SP, "b">>

Pads == 1..MaxPad

\* VINs as received: stored form, lower case, padded with blanks, another VIN
CreateVINs ==
    {VinA, ToLower(VinA), VinB} \cup {Pad(k, ToLower(VinA), k) : k \in Pads}

CreateRequests ==
    {[VIN |-> v, Make |-> MakeCore, LicensePlate |-> PlateCore,
      OwnerName |-> NameCore, OwnerEmail |-> e] :
        v \in CreateVINs, e \in {EmailCore, ToUpper(EmailCore)}}

\* every field plain, or padded with blanks and in another case; a VIN that is
\* 17 characters only with its blanks; an email without a domain
NormVINs ==
    CreateVINs \cup {Pad(k, Rep("a", VinLen - 2 * k), k) : k \in Pads}

NormEmails ==
    {EmailCore, ToUpper(EmailCore), <<"a", "b">>}
        \cup {Pad(k, ToUpper(EmailCore), k) : k \in Pads}

WithPads(core) == {core} \cup {Pad(k, core, k) : k \in Pads}

NormRequests ==
    {[VIN |-> v, Make |-> m, LicensePlate |-> p, OwnerName |-> n, OwnerEmail |-> e] :
        v \in NormVINs, m \in WithPads(MakeCore), p \in {<<>>} \cup WithPads(PlateCore),
        n \in WithPads(NameCore), e \in NormEmails}

----------------------------------------------------------------------------
(* POST /vehicles: CreateVehicleHandler.Handle over the repository, one     *)
(* step per storage call; the clock may advance between any two steps.      *)

Idle ==
    /\ pc = [r \in Reqs |-> "idle"]
    /\ req = [r \in Reqs |-> NoRequest]
    /\ ref = [r \in Reqs |-> NoID]
    /\ veh = [r \in Reqs |-> NoVehicle]
    /\ resp = [r \in Reqs |-> NoResponse]
    /\ got = [r \in Reqs |-> NoVehicle]
    /\ stored = [r \in Reqs |-> NoVehicle]
    /\ fresh = [r \in Reqs |-> FALSE]

EmptyStore ==
    /\ vehicles = <<>>
    /\ vinIndex = <<>>

\* the vehicle stored under the VIN's normal form, if any
StoredUnder(vin) ==
    LET k == ToUpper(TrimSpace(vin)) IN
    IF k \in DOMAIN vinIndex /\ vinIndex[k] \in DOMAIN vehicles
    THEN vehicles[vinIndex[k]]
    ELSE NoVehicle

\* the request is bound and validated
Receive(r, inputs) ==
    /\ pc[r] = "idle"
    /\ \E q \in inputs :
          /\ req' = [req EXCEPT ![r] = q]
          /\ stored' = [stored EXCEPT ![r] = StoredUnder(q.VIN)]
          /\ IF Validate(q) # {}
             THEN /\ resp' = [resp EXCEPT ![r] = HandleError(ErrInvalidInput, "")]
                  /\ pc' = [pc EXCEPT ![r] = "done"]
             ELSE /\ pc' = [pc EXCEPT ![r] = "lookup"]
                  /\ UNCHANGED resp
    /\ UNCHANGED <<now, vehicles, vinIndex, ref, veh, got, fresh>>
    /\ UNCHANGED domVars
    /\ UNCHANGED svcVars

\* GetVehicleByVIN(req.VIN): the Get of the lookup document "vin::" + vin
LookupVIN(r) ==
    /\ pc[r] = "lookup"
    /\ IF req[r].VIN \in DOMAIN vinIndex
       THEN /\ ref' = [ref EXCEPT ![r] = vinIndex[req[r].VIN]]
            /\ pc' = [pc EXCEPT ![r] = "lookup_vehicle"]
       ELSE /\ pc' = [pc EXCEPT ![r] = "build"]
            /\ UNCHANGED ref
    /\ UNCHANGED <<now, vehicles, vinIndex, req, veh, resp, got, stored, fresh>>
    /\ UNCHANGED domVars
    /\ UNCHANGED svcVars

\* GetVehicleByVIN: the GetVehicle of the referenced document; the handler
\* answers with ErrResourceExists when it returns a vehicle and goes on otherwise
LookupVehicle(r) ==
    /\ pc[r] = "lookup_vehicle"
    /\ IF Repo_GetVehicle(vehicles, ref[r]).err = "nil"
       THEN /\ resp' = [resp EXCEPT ![r] = HandleError(ErrResourceExists, "")]
            /\ pc' = [pc EXCEPT ![r] = "done"]
       ELSE /\ pc' = [pc EXCEPT ![r] = "build"]
            /\ UNCHANGED resp
    /\ UNCHANGED <<now, vehicles, vinIndex, req, ref, veh, got, stored, fresh>>
    /\ UNCHANGED domVars
    /\ UNCHANGED svcVars

\* the handler builds the vehicle: normalized fields, ID and times from the clock
Build(r) ==
    /\ pc[r] = "build"
    /\ veh' = [veh EXCEPT ![r] = BuildVehicle(req[r], now)]
    /\ pc' = [pc EXCEPT ![r] = "create"]
    /\ UNCHANGED <<now, vehicles, vinIndex, req, ref, resp, got, stored, fresh>>
    /\ UNCHANGED domVars
    /\ UNCHANGED svcVars

\* repository.CreateVehicle and the handler's return: any repository error is
\* returned as ErrDatabaseQuery with the error as its cause
CreateTx(r) ==
    /\ pc[r] = "create"
    /\ LET out == Repo_CreateVehicle(vehicles, vinIndex, veh[r], now) IN
          /\ vehicles' = out.vehicles
          /\ vinIndex' = out.vinIndex
          /\ veh' = [veh EXCEPT ![r] = out.vehicle]
          /\ resp' = [resp EXCEPT ![r] =
                        IF out.err = "nil"
                        THEN RenderCreated(out.vehicle)
                        ELSE HandleError(ErrDatabaseQuery, out.err)]
    /\ fresh' = [fresh EXCEPT ![r] = veh[r].VIN \notin DOMAIN vinIndex]
    /\ pc' = [pc EXCEPT ![r] = "done"]
    /\ UNCHANGED <<now, req, ref, got, stored>>
    /\ UNCHANGED domVars
    /\ UNCHANGED svcVars

\* GET /vehicles/:id with the ID of a created response
GetVehicle(r) ==
    /\ pc[r] = "done"
    /\ resp[r].status = 200
    /\ got' = [got EXCEPT ![r] = Repo_GetVehicle(vehicles, resp[r].ID).vehicle]
    /\ pc' = [pc EXCEPT ![r] = "read"]
    /\ UNCHANGED <<now, vehicles, vinIndex, req, ref, veh, resp, stored, fresh>>
    /\ UNCHANGED domVars
    /\ UNCHANGED svcVars

Tick ==
    /\ now < MaxClock
    /\ now' = now + 1
    /\ UNCHANGED <<vehicles, vinIndex, pc, req, ref, veh, resp, got, stored, fresh>>
    /\ UNCHANGED domVars
    /\ UNCHANGED svcVars

----------------------------------------------------------------------------
(* The error model.  Each predefined error is a package variable holding a   *)
(* pointer to one AppError; Type, Code, Message and HTTPStatus are set once  *)
(* by New, Details and Cause are the fields WithDetails and WithCause write. *)
(* An error value is nil, a pointer to a predefined error, or an error of a  *)
(* collaborator: the sentinels errors.Is/As find in it and its message, a    *)
(* sequence of words.                                                        *)

ErrInvalidID == [Type |-> "validation", Code |-> "INVALID_ID", HTTPStatus |-> 400]

ErrRequestTimeout == [Type |-> "timeout", Code |-> "REQUEST_TIMEOUT", HTTPStatus |-> 408]

ErrInternalServer == [Type |-> "internal", Code |-> "INTERNAL_SERVER_ERROR", HTTPStatus |-> 500]

ErrDatabaseConnection ==
    [Type |-> "internal", Code |-> "DATABASE_CONNECTION_ERROR", HTTPStatus |-> 500]

ErrInvalidFormat == [Type |-> "validation", Code |-> "INVALID_FORMAT", HTTPStatus |-> 400]

Templates ==
    {"ErrInvalidInput", "ErrInvalidFormat", "ErrInvalidID", "ErrResourceNotFound", "ErrResourceExists", "ErrRequestTimeout",
     "ErrInternalServer", "ErrDatabaseConnection", "ErrDatabaseQuery"}

\* the fields of a predefined error that New sets
Template(name) ==
    CASE name = "ErrInvalidInput" -> ErrInvalidInput
      [] name = "ErrInvalidFormat" -> ErrInvalidFormat
      [] name = "ErrInvalidID" -> ErrInvalidID
      [] name = "ErrResourceNotFound" -> ErrResourceNotFound
      [] name = "ErrResourceExists" -> ErrResourceExists
      [] name = "ErrRequestTimeout" -> ErrRequestTimeout
      [] name = "ErrInternalServer" -> ErrInternalServer
      [] name = "ErrDatabaseConnection" -> ErrDatabaseConnection
      [] name = "ErrDatabaseQuery" -> ErrDatabaseQuery

\* AppError.Message of a predefined error
MessageOf(name) ==
    CASE name = "ErrInvalidInput" -> "Invalid input provided"
      [] name = "ErrInvalidFormat" -> "Invalid format provided"
      [] name = "ErrInvalidID" -> "Invalid ID format"
      [] name = "ErrResourceNotFound" -> "Requested resource not found"
      [] name = "ErrResourceExists" -> "Resource already exists"
      [] name = "ErrRequestTimeout" -> "Request timeout"
      [] name = "ErrInternalServer" -> "Internal server error occurred"
      [] name = "ErrDatabaseConnection" -> "Database connection failed"
      [] name = "ErrDatabaseQuery" -> "Database query failed"

NilErr == [kind |-> "nil", name |-> "", is |-> {}, msg |-> <<>>]

\* the pointer held by the package variable of that name
AppErr(name) == [kind |-> "app", name |-> name, is |-> {}, msg |-> <<>>]

\* a collaborator's error
RawErr(is, msg) == [kind |-> "raw", name |-> "", is |-> is, msg |-> msg]

\* a details map: its first and second pair; id is the value of an "id" pair
Details(k1, v1, k2, v2, id) == [k1 |-> k1, v1 |-> v1, k2 |-> k2, v2 |-> v2, id |-> id]

\* Details == nil
NoDetails == Details("", "", "", "", 0)

\* the predefined errors as New leaves them
FreshTemplates == [n \in Templates |-> [Details |-> NoDetails, Cause |-> NilErr]]

\* e.Details = details; return e
WithDetails(t, name, details) == [t EXCEPT ![name].Details = details]

\* e.Cause = cause; return e
WithCause(t, name, cause) == [t EXCEPT ![name].Cause = cause]

NewValidationError(t, field, message) ==
    WithDetails(t, "ErrInvalidInput", Details("field", field, "message", message, 0))

NewNotFoundError(t, resource, id) ==
    WithDetails(t, "ErrResourceNotFound", Details("resource", resource, "id", "", id))

NewConflictError(t, resource, message) ==
    WithDetails(t, "ErrResourceExists", Details("resource", resource, "message", message, 0))

NewDatabaseError(t, operation, err) ==
    WithDetails(WithCause(t, "ErrDatabaseQuery", err), "ErrDatabaseQuery",
                Details("operation", operation, "", "", 0))

\* following Cause from e comes back to an error already visited
RECURSIVE CauseLoops(_, _, _)
CauseLoops(t, e, seen) ==
    IF e.kind # "app" THEN FALSE
    ELSE IF e.name \in seen THEN TRUE
    ELSE CauseLoops(t, t[e.name].Cause, seen \cup {e.name})

\* AppError.Error: the message, then ": " and the cause's text when there is a
\* cause; a collaborator's error prints its message.  Defined where the chain
\* of causes ends.
RECURSIVE ErrorText(_, _)
ErrorText(t, e) ==
    IF e.kind = "nil" THEN <<>>
    ELSE IF e.kind = "raw" THEN e.msg
    ELSE IF t[e.name].Cause.kind = "nil" THEN <<MessageOf(e.name)>>
    ELSE <<MessageOf(e.name), ":">> \o ErrorText(t, t[e.name].Cause)

----------------------------------------------------------------------------
(* The storage-error classifiers.  Each returns the predefined error it      *)
(* decorated: the table of predefined errors after the call and the pointer. *)

\* strings.Contains on messages: the phrase's words occur in a row
Contains(m, p) ==
    \E i \in 1..Len(m) :
        /\ i + Len(p) - 1 <= Len(m)
        /\ \A k \in 1..Len(p) : m[i + k - 1] = p[k]

LowerWord(w) ==
    CASE w = "TIMEOUT" -> "timeout" [] w = "Duplicate" -> "duplicate" [] OTHER -> w

\* strings.ToLower(err.Error())
LowerWords(m) == [i \in 1..Len(m) |-> LowerWord(m[i])]

\* A classifier that tests for a timeout before it tests for a conflict
Mut_Product_convertDBError_TimeoutFirst(t, operation, err) ==
    LET errMsg == LowerWords(err.msg) IN
    IF Contains(errMsg, <<"document", "not", "found">>) \/ Contains(errMsg, <<"key", "not", "found">>)
    THEN [tmpl |-> WithCause(t, "ErrResourceNotFound", err), err |-> AppErr("ErrResourceNotFound")]
    ELSE IF Contains(errMsg, <<"timeout">>) \/ Contains(errMsg, <<"deadline", "exceeded">>)
    THEN [tmpl |-> WithCause(t, "ErrRequestTimeout", err), err |-> AppErr("ErrRequestTimeout")]
    ELSE IF \/ Contains(errMsg, <<"duplicate">>)
            \/ Contains(errMsg, <<"already", "exists">>)
            \/ Contains(errMsg, <<"unique", "constraint">>)
    THEN [tmpl |-> WithCause(t, "ErrResourceExists", err), err |-> AppErr("ErrResourceExists")]
    ELSE IF Contains(errMsg, <<"connection">>) \/ Contains(errMsg, <<"network">>)
    THEN [tmpl |-> WithCause(t, "ErrDatabaseConnection", err),
          err |-> AppErr("ErrDatabaseConnection")]
    ELSE [tmpl |-> NewDatabaseError(t, operation, err), err |-> AppErr("ErrDatabaseQuery")]

\* ProductRepository.convertDBError: the switch over the lower-cased message
Product_convertDBError(t, operation, err) ==
    LET errMsg == LowerWords(err.msg) IN
    IF Contains(errMsg, <<"document", "not", "found">>) \/ Contains(errMsg, <<"key", "not", "found">>)
    THEN [tmpl |-> WithCause(t, "ErrResourceNotFound", err), err |-> AppErr("ErrResourceNotFound")]
    ELSE IF \/ Contains(errMsg, <<"duplicate">>)
            \/ Contains(errMsg, <<"already", "exists">>)
            \/ Contains(errMsg, <<"unique", "constraint">>)
    THEN [tmpl |-> WithCause(t, "ErrResourceExists", err), err |-> AppErr("ErrResourceExists")]
    ELSE IF Contains(errMsg, <<"timeout">>) \/ Contains(errMsg, <<"deadline", "exceeded">>)
    THEN [tmpl |-> WithCause(t, "ErrRequestTimeout", err), err |-> AppErr("ErrRequestTimeout")]
    ELSE IF Contains(errMsg, <<"connection">>) \/ Contains(errMsg, <<"network">>)
    THEN [tmpl |-> WithCause(t, "ErrDatabaseConnection", err),
          err |-> AppErr("ErrDatabaseConnection")]
    ELSE [tmpl |-> NewDatabaseError(t, operation, err), err |-> AppErr("ErrDatabaseQuery")]

\* VehicleRepository.convertDBError: the switch over errors.Is and errors.As
Repo_convertDBError(t, operation, err) ==
    IF "ErrDocumentNotFound" \in err.is
    THEN [tmpl |-> WithCause(t, "ErrResourceNotFound", err), err |-> AppErr("ErrResourceNotFound")]
    ELSE IF "ErrDocumentExists" \in err.is
    THEN [tmpl |-> WithCause(t, "ErrResourceExists", err), err |-> AppErr("ErrResourceExists")]
    ELSE IF "TimeoutError" \in err.is
    THEN \* errors.As: the cause is the timeout error found in err's chain
         [tmpl |-> WithCause(t, "ErrRequestTimeout", RawErr({"TimeoutError"}, err.msg)),
          err |-> AppErr("ErrRequestTimeout")]
    ELSE [tmpl |-> NewDatabaseError(t, operation, err), err |-> AppErr("ErrDatabaseQuery")]

----------------------------------------------------------------------------
(* The request binder of the dispatch adapters: the sources are parsed in a  *)
(* fixed order into one request value; a source sets the fields it carries.  *)

\* a pointer field that is nil
Unset == <<"unset">>

\* the order of the parsers in handle and handleFiberCtx with the parameters
\* swapped in front of the body
Mut_HandleOrder_ParamsFirst == <<"params", "body", "query", "headers">>

\* handle, handleFiberCtx: BodyParser, ParamsParser, QueryParser, ReqHeaderParser
HandleOrder == <<"body", "params", "query", "headers">>

\* handleRaw: ParamsParser, QueryParser
RawOrder == <<"params", "query">>

\* var req R
ZeroRequest ==
    [ID |-> NoID, DocID |-> 0, LicensePlate |-> Unset, OwnerName |-> Unset, UpdatedBy |-> ""]

\* a parser that succeeded: the fields the source carries overwrite the request's
Fill(rq, set) == [f \in DOMAIN rq |-> IF f \in DOMAIN set THEN set[f] ELSE rq[f]]

\* the parsers from the i-th on.  in[s].res is "ok", "fail" or, for a body the
\* parser cannot process (fiber.ErrUnprocessableEntity), "unprocessable", which
\* the adapter lets pass.  The result names the source that failed, if any, and
\* the sources parsed.
\* A binder that parses every source whatever the earlier ones returned
Mut_BindFrom_ParsesOn(order, i, rq, in) ==
    LET bad == {k \in i..Len(order) :
                  in[order[k]].res = "fail"
                      \/ (in[order[k]].res = "unprocessable" /\ order[k] # "body")}
    IN  [req |-> rq,
         failed |-> IF bad = {} THEN ""
                    ELSE order[CHOOSE k \in bad : \A j \in bad : k <= j],
         parsed |-> order]

RECURSIVE BindFrom(_, _, _, _)
BindFrom(order, i, rq, in) ==
    IF i > Len(order) THEN [req |-> rq, failed |-> "", parsed |-> order]
    ELSE LET s == order[i] IN
         IF in[s].res = "fail" \/ (in[s].res = "unprocessable" /\ s # "body")
         THEN [req |-> rq, failed |-> s, parsed |-> SubSeq(order, 1, i)]
         ELSE BindFrom(order, i + 1,
                       IF in[s].res = "ok" THEN Fill(rq, in[s].set) ELSE rq, in)

Binder(order, in) == BindFrom(order, 1, ZeroRequest, in)

----------------------------------------------------------------------------
(* Rendering *)

NoReply ==
    [status |-> 0, shape |-> "none", type |-> "", code |-> "", message |-> "",
     details |-> NoDetails, text |-> <<>>]

NoLog == [written |-> FALSE, details |-> NoDetails, cause |-> NilErr, text |-> <<>>]

\* c.Status(fiber.StatusBadRequest).JSON(fiber.Map{"error": err.Error()})
BindFailure(source) ==
    [status |-> 400, shape |-> "error_string", type |-> "", code |-> "", message |-> "",
     details |-> NoDetails, text |-> <<"cannot", "parse", source>>]

\* c.JSON(res)
Success(shape) ==
    [status |-> 200, shape |-> shape, type |-> "", code |-> "", message |-> "",
     details |-> NoDetails, text |-> <<>>]

\* A HandleError that answers an unclassified error with the error's own text
Mut_HandleErrorBody_LeaksText(t, e) ==
    IF e.kind = "app"
    THEN [status |-> Template(e.name).HTTPStatus, shape |-> "error_object",
          type |-> Template(e.name).Type, code |-> Template(e.name).Code,
          message |-> MessageOf(e.name), details |-> t[e.name].Details, text |-> <<>>]
    ELSE [status |-> 500, shape |-> "error_object", type |-> "internal",
          code |-> "UNKNOWN_ERROR", message |-> "An unexpected error occurred",
          details |-> NoDetails, text |-> e.msg]

\* HandleError: the body and status it writes.  errors.As finds the AppError;
\* its fields are read through the pointer when the response is written.
HandleErrorBody(t, e) ==
    IF e.kind = "app"
    THEN [status |-> Template(e.name).HTTPStatus, shape |-> "error_object",
          type |-> Template(e.name).Type, code |-> Template(e.name).Code,
          message |-> MessageOf(e.name), details |-> t[e.name].Details, text |-> <<>>]
    ELSE [status |-> 500, shape |-> "error_object", type |-> "internal",
          code |-> "UNKNOWN_ERROR", message |-> "An unexpected error occurred",
          details |-> NoDetails, text |-> <<>>]

\* the cause logError hands to the logger: the AppError's, or the unclassified
\* error itself
LoggedCause(t, e) == IF e.kind = "app" THEN t[e.name].Cause ELSE e

\* logError: the details and the cause of the log line; the logger prints the
\* cause with its Error method
LogLine(t, e) ==
    [written |-> TRUE,
     details |-> IF e.kind = "app" THEN t[e.name].Details ELSE NoDetails,
     cause   |-> LoggedCause(t, e),
     text    |-> ErrorText(t, LoggedCause(t, e))]

\* an error handleRaw returns goes to the framework's default error handler:
\* status 500 and the error's text as a plain-text body
DefaultErrorHandler(t, e) ==
    [status |-> 500, shape |-> "text", type |-> "", code |-> "", message |-> "",
     details |-> NoDetails, text |-> ErrorText(t, e)]

----------------------------------------------------------------------------
(* The repository and the handlers behind the dispatch adapters.  dbErr is   *)
(* what the storage call returned: NilErr or a collaborator's error.         *)

\* VehicleRepository.GetVehicle
VehicleRepository_GetVehicle(t, vs, id, dbErr) ==
    IF id = NoID
    THEN [tmpl |-> t, vehicle |-> NoVehicle, err |-> AppErr("ErrInvalidID")]
    ELSE IF dbErr.kind # "nil"
    THEN LET c == Repo_convertDBError(t, "get_vehicle", dbErr) IN
         [tmpl |-> c.tmpl, vehicle |-> NoVehicle, err |-> c.err]
    ELSE [tmpl |-> t, vehicle |-> vs[id], err |-> NilErr]

\* An UpdateVehicle that replaces nothing
Mut_UpdateVehicle_NoWrite(t, vs, v, clock, dbErr) ==
    IF dbErr.kind # "nil"
    THEN LET c == Repo_convertDBError(t, "update_vehicle", dbErr) IN
         [tmpl |-> c.tmpl, vehicles |-> vs, err |-> c.err]
    ELSE [tmpl |-> t, vehicles |-> vs, err |-> NilErr]

\* VehicleRepository.UpdateVehicle: stamps the vehicle and replaces the whole
\* document under its ID; the Replace carries no CAS value
VehicleRepository_UpdateVehicle(t, vs, v, clock, dbErr) ==
    IF dbErr.kind # "nil"
    THEN LET c == Repo_convertDBError(t, "update_vehicle", dbErr) IN
         [tmpl |-> c.tmpl, vehicles |-> vs, err |-> c.err]
    ELSE [tmpl |-> t, vehicles |-> [vs EXCEPT ![v.ID] = [v EXCEPT !.UpdatedAt = clock]],
          err |-> NilErr]

\* validator.Validate of GetVehicleRequest and UpdateVehicleRequest: the
\* required fields that are empty
ValidateRequired(ep, rq) ==
    {f \in {"ID", "UpdatedBy"} :
        \/ f = "ID" /\ rq.ID = NoID
        \/ f = "UpdatedBy" /\ ep = "update" /\ rq.UpdatedBy = ""}

\* An update that forgets the owner name
Mut_ApplyUpdate_DropsOwnerName(v, rq, clock) ==
    [v EXCEPT
        !.LicensePlate = IF rq.LicensePlate # Unset
                         THEN ToUpper(TrimSpace(rq.LicensePlate)) ELSE @,
        !.UpdatedAt    = clock,
        !.UpdatedBy    = rq.UpdatedBy]

\* An update that resets the creation time and clears a license plate the
\* request does not carry
Mut_ApplyUpdate_TouchesOthers(v, rq, clock) ==
    [v EXCEPT
        !.LicensePlate = IF rq.LicensePlate # Unset
                         THEN ToUpper(TrimSpace(rq.LicensePlate)) ELSE <<>>,
        !.OwnerName    = IF rq.OwnerName # Unset THEN TrimSpace(rq.OwnerName) ELSE @,
        !.CreatedAt    = clock,
        !.UpdatedAt    = clock,
        !.UpdatedBy    = rq.UpdatedBy]

\* UpdateVehicleHandler.Handle: the fields the request provides overwrite the
\* fetched vehicle's; vehicle.UpdateTimestamp
ApplyUpdate(v, rq, clock) ==
    [v EXCEPT
        !.LicensePlate = IF rq.LicensePlate # Unset
                         THEN ToUpper(TrimSpace(rq.LicensePlate)) ELSE @,
        !.OwnerName    = IF rq.OwnerName # Unset THEN TrimSpace(rq.OwnerName) ELSE @,
        !.UpdatedAt    = clock,
        !.UpdatedBy    = rq.UpdatedBy]

----------------------------------------------------------------------------
(* Requests through the dispatch adapters: GET /vehicles/:id and             *)
(* PUT /vehicles/:id (handle), the document download (handleRaw) and the GPS *)
(* query (handle).  A request takes one step per storage or blob call and    *)
(* one for the rendering of its error, and requests interleave between them. *)

createOnly == <<vinIndex, pc, req, ref, veh, resp, got, stored, fresh>>

Endpoints == {"get", "update", "download", "gps"}

\* messages of the collaborators' errors
RawMsgs == {<<"m1">>, <<"m2">>}

\* what a storage call can fail with besides a missing or an existing key
StorageFaults ==
    {RawErr({"TimeoutError"}, m) : m \in RawMsgs} \cup {RawErr({}, m) : m \in RawMsgs}

\* collection.Get: the document, a missing key, or a fault
GetOutcomes(vs, id) ==
    IF id \in DOMAIN vs
    THEN {NilErr} \cup StorageFaults
    ELSE {RawErr({"ErrDocumentNotFound"}, m) : m \in RawMsgs} \cup StorageFaults

BlobFaults == {RawErr({}, m) : m \in RawMsgs}

PathIDs == {GenerateVehicleID(1), GenerateVehicleID(2)}

NoSrv ==
    [pc |-> "idle", ep |-> "", rq |-> ZeroRequest, veh |-> NoVehicle, err |-> NilErr,
     repoErr |-> "", fault |-> NilErr, calls |-> <<>>,
     hasDetails |-> FALSE, ownDetails |-> NoDetails, hasCause |-> FALSE, ownText |-> <<>>,
     via |-> "", seen |-> NoDetails, resp |-> NoReply, log |-> NoLog,
     readDoc |-> NoVehicle, wroteDoc |-> NoVehicle,
     parsed |-> <<>>, failedAt |-> "", handled |-> 0, preDoc |-> NoVehicle]

NoCls == [pc |-> "idle", err |-> NilErr, operation |-> "", out |-> NilErr]

NoBnd == [pc |-> "idle", in |-> <<>>, out |-> [req |-> ZeroRequest, failed |-> "", parsed |-> <<>>]]

NoDocReq ==
    [pc |-> "idle", op |-> "", vehicleID |-> NoID, documentID |-> NoID, type |-> "",
     name |-> 0, failedAt |-> "", dup |-> FALSE, err |-> NilErr, resp |-> NoReply,
     calls |-> <<>>, logged |-> FALSE, uploads |-> 0,
     preBlobs |-> {}, preDocuments |-> <<>>]

NoCalc == [pc |-> "idle"]

DocIdle ==
    /\ blobs = {}
    /\ docreq = NoDocReq
    /\ calc = NoCalc

SvcIdle ==
    /\ tmpl = FreshTemplates
    /\ srv = [r \in Reqs |-> NoSrv]
    /\ cls = NoCls
    /\ bnd = NoBnd
    /\ DocIdle

NoFields == [f \in {} |-> ""]

Source(res, set) == [res |-> res, set |-> set]

\* what the four sources of a request to the endpoint can hold
BindInputs(ep) ==
    CASE ep = "get" ->
           {[body |-> Source("unprocessable", NoFields), params |-> Source("ok", "ID" :> id),
             query |-> Source("ok", NoFields), headers |-> Source("ok", NoFields)] :
               id \in PathIDs}
      [] ep = "update" ->
           {[body |-> Source(b[1], b[2]), params |-> Source("ok", "ID" :> id),
             query |-> Source("ok", NoFields), headers |-> Source("ok", NoFields)] :
               id \in PathIDs,
               b \in {<<"ok", ("LicensePlate" :> <<"c", "a">>) @@ ("UpdatedBy" :> "u")>>,
                      <<"ok", ("OwnerName" :> <<"c">>) @@ ("UpdatedBy" :> "u")>>,
                      <<"ok", "LicensePlate" :> <<"c", "a">>>>,
                      <<"fail", NoFields>>}}
      [] ep = "download" ->
           {[body |-> Source("ok", NoFields),
             params |-> Source("ok", ("ID" :> id) @@ ("DocID" :> d)),
             query |-> Source(q, NoFields), headers |-> Source("ok", NoFields)] :
               id \in PathIDs, d \in DocIDs, q \in {"ok", "fail"}}
      [] ep = "gps" ->
           {[body |-> Source("unprocessable", NoFields), params |-> Source("ok", NoFields),
             query |-> Source(q, NoFields), headers |-> Source("ok", NoFields)] :
               q \in {"ok", "fail"}}

\* a request is down when the process died rendering another one
Alive == \A r \in Reqs : srv[r].pc # "crashed"

\* the adapter binds the request; a parser's error is answered at once
SrvBind(r) ==
    /\ Alive
    /\ srv[r].pc = "idle"
    /\ \E ep \in Endpoints : \E in \in BindInputs(ep) :
          LET b == Binder(IF ep = "download" THEN RawOrder ELSE HandleOrder, in) IN
          srv' = [srv EXCEPT ![r] =
                    IF b.failed # ""
                    THEN [@ EXCEPT !.pc = "done", !.ep = ep, !.via = "adapter",
                                   !.parsed = b.parsed, !.failedAt = b.failed,
                                   !.resp = BindFailure(b.failed)]
                    ELSE [@ EXCEPT !.pc = "bound", !.ep = ep, !.rq = b.req,
                                   !.parsed = b.parsed]]
    /\ UNCHANGED <<now, vehicles, tmpl, cls, bnd>>
    /\ UNCHANGED <<domVars, createOnly, docVars>>

ValidationMessage(missing) ==
    IF missing = {"ID"} THEN "id is required"
    ELSE IF missing = {"UpdatedBy"} THEN "updatedby is required"
    ELSE "id is required; updatedby is required"

\* the handler up to the return of repository.GetVehicle: the validation of
\* the get and update requests, the fetch, and what the handler does with
\* the vehicle before its next call
SrvFetch(r) ==
    LET me == srv[r] IN
    /\ Alive
    /\ me.pc = "bound"
    /\ me.ep \in {"get", "update", "download"}
    /\ IF me.ep # "download" /\ ValidateRequired(me.ep, me.rq) # {}
       THEN LET d == Details("validation", ValidationMessage(ValidateRequired(me.ep, me.rq)),
                             "", "", 0) IN
            /\ tmpl' = WithDetails(tmpl, "ErrInvalidInput", d)
            /\ srv' = [srv EXCEPT ![r] =
                         [@ EXCEPT !.handled = @ + 1, !.pc = "failed", !.err = AppErr("ErrInvalidInput"),
                                   !.hasDetails = TRUE, !.ownDetails = d]]
       ELSE \E dbErr \in GetOutcomes(vehicles, me.rq.ID) :
            LET g == VehicleRepository_GetVehicle(tmpl, vehicles, me.rq.ID, dbErr) IN
            IF g.err.kind # "nil"
            THEN /\ tmpl' = g.tmpl
                 /\ srv' = [srv EXCEPT ![r] =
                              [@ EXCEPT !.handled = @ + 1, !.pc = "failed", !.err = g.err,
                                        !.repoErr = g.err.name, !.fault = dbErr,
                                        !.calls = Append(@, "Get"),
                                        !.hasCause = TRUE, !.ownText = dbErr.msg,
                                        !.hasDetails = (g.err.name = "ErrDatabaseQuery"),
                                        !.ownDetails = IF g.err.name = "ErrDatabaseQuery"
                                                       THEN g.tmpl[g.err.name].Details
                                                       ELSE NoDetails]]
            ELSE IF me.ep = "get"
            THEN /\ srv' = [srv EXCEPT ![r] =
                              [@ EXCEPT !.handled = @ + 1, !.pc = "done", !.calls = Append(@, "Get"),
                                        !.veh = g.vehicle, !.resp = Success("json")]]
                 /\ UNCHANGED tmpl
            ELSE IF me.ep = "update"
            THEN /\ srv' = [srv EXCEPT ![r] =
                              [@ EXCEPT !.handled = @ + 1, !.pc = "fetched", !.calls = Append(@, "Get"),
                                        !.readDoc = g.vehicle,
                                        !.veh = ApplyUpdate(g.vehicle, me.rq, now)]]
                 /\ UNCHANGED tmpl
            ELSE IF HasID(g.vehicle.Documents, me.rq.DocID)
            THEN /\ srv' = [srv EXCEPT ![r] =
                              [@ EXCEPT !.handled = @ + 1, !.pc = "fetched", !.calls = Append(@, "Get"),
                                        !.veh = g.vehicle]]
                 /\ UNCHANGED tmpl
            ELSE LET d == Details("resource", "document", "id", "", me.rq.DocID) IN
                 /\ tmpl' = WithDetails(tmpl, "ErrResourceNotFound", d)
                 /\ srv' = [srv EXCEPT ![r] =
                              [@ EXCEPT !.handled = @ + 1, !.pc = "failed", !.calls = Append(@, "Get"),
                                        !.err = AppErr("ErrResourceNotFound"),
                                        !.hasDetails = TRUE, !.ownDetails = d]]
    /\ UNCHANGED <<now, vehicles, cls, bnd>>
    /\ UNCHANGED <<domVars, createOnly, docVars>>

\* the error's text where its chain of causes ends, nothing where it loops
TextOrNone(t, e) == IF CauseLoops(t, e, {}) THEN <<>> ELSE ErrorText(t, e)

\* the handler's second call.  Update: repository.UpdateVehicle, whose error
\* the handler returns as ErrDatabaseQuery with the error as cause.  Download:
\* storageService.Download, whose error it returns as ErrInternalServer.
SrvStore(r) ==
    LET me == srv[r] IN
    /\ Alive
    /\ me.pc = "fetched"
    /\ IF me.ep = "update"
       THEN \E dbErr \in {NilErr} \cup StorageFaults :
            LET u == VehicleRepository_UpdateVehicle(tmpl, vehicles, me.veh, now, dbErr)
                d == Details("operation", "update_vehicle", "", "", 0)
                w == WithDetails(WithCause(u.tmpl, "ErrDatabaseQuery", u.err),
                                 "ErrDatabaseQuery", d)
            IN  IF u.err.kind = "nil"
                THEN /\ vehicles' = u.vehicles
                     /\ srv' = [srv EXCEPT ![r] =
                                  [@ EXCEPT !.pc = "done", !.calls = Append(@, "Replace"),
                                            !.preDoc = vehicles[me.veh.ID],
                                            !.wroteDoc = u.vehicles[me.veh.ID],
                                            !.resp = Success("json")]]
                     /\ UNCHANGED tmpl
                ELSE /\ tmpl' = w
                     /\ srv' = [srv EXCEPT ![r] =
                                  [@ EXCEPT !.pc = "failed", !.calls = Append(@, "Replace"),
                                            !.err = AppErr("ErrDatabaseQuery"),
                                            !.repoErr = u.err.name, !.fault = dbErr,
                                            !.hasDetails = TRUE, !.ownDetails = d,
                                            !.hasCause = TRUE,
                                            !.ownText = TextOrNone(w, u.err)]]
                     /\ UNCHANGED vehicles
       ELSE \E blobErr \in {NilErr} \cup BlobFaults :
            LET d == Details("operation", "download_blob", "", "", 0) IN
            IF blobErr.kind = "nil"
            THEN /\ srv' = [srv EXCEPT ![r] =
                              [@ EXCEPT !.pc = "done", !.calls = Append(@, "Download"),
                                        !.resp = Success("stream")]]
                 /\ UNCHANGED <<tmpl, vehicles>>
            ELSE /\ tmpl' = WithDetails(WithCause(tmpl, "ErrInternalServer", blobErr),
                                        "ErrInternalServer", d)
                 /\ srv' = [srv EXCEPT ![r] =
                              [@ EXCEPT !.pc = "failed", !.calls = Append(@, "Download"),
                                        !.err = AppErr("ErrInternalServer"),
                                        !.fault = blobErr,
                                        !.hasDetails = TRUE, !.ownDetails = d,
                                        !.hasCause = TRUE, !.ownText = blobErr.msg]]
                 /\ UNCHANGED vehicles
    /\ UNCHANGED <<now, cls, bnd>>
    /\ UNCHANGED <<domVars, createOnly, docVars>>

\* GetGPSDataHandler.Handle: the repository wraps the query's error with
\* fmt.Errorf and the handler returns it as it is
SrvGps(r) ==
    LET me == srv[r] IN
    /\ Alive
    /\ me.pc = "bound"
    /\ me.ep = "gps"
    /\ \E dbErr \in {NilErr} \cup StorageFaults :
          LET e == RawErr(dbErr.is, <<"failed", "to", "query", "items", ":">> \o dbErr.msg) IN
          srv' = [srv EXCEPT ![r] =
                    IF dbErr.kind = "nil"
                    THEN [@ EXCEPT !.handled = @ + 1, !.pc = "done", !.calls = Append(@, "Query"),
                                   !.resp = Success("json")]
                    ELSE [@ EXCEPT !.handled = @ + 1, !.pc = "failed", !.calls = Append(@, "Query"),
                                   !.err = e, !.fault = dbErr,
                                   !.hasCause = TRUE, !.ownText = e.msg]]
    /\ UNCHANGED <<now, vehicles, tmpl, cls, bnd>>
    /\ UNCHANGED <<domVars, createOnly, docVars>>

\* the error is rendered.  handle and handleFiberCtx call HandleError, which
\* logs the error and then writes the body; handleRaw returns the error to the
\* framework.  Printing an error whose chain of causes loops never returns: the
\* stack overflows and the process dies.
SrvRender(r) ==
    LET me == srv[r] IN
    /\ Alive
    /\ me.pc = "failed"
    /\ IF me.ep = "download"
       THEN srv' = [srv EXCEPT ![r] =
                      IF CauseLoops(tmpl, me.err, {})
                      THEN [@ EXCEPT !.pc = "crashed"]
                      ELSE [@ EXCEPT !.pc = "done", !.via = "framework",
                                     !.resp = DefaultErrorHandler(tmpl, me.err)]]
       ELSE srv' = [srv EXCEPT ![r] =
                      IF CauseLoops(tmpl, LoggedCause(tmpl, me.err), {})
                      THEN [@ EXCEPT !.pc = "crashed"]
                      ELSE [@ EXCEPT !.pc = "done", !.via = "HandleError",
                                     !.seen = IF me.err.kind = "app"
                                              THEN tmpl[me.err.name].Details ELSE NoDetails,
                                     !.log = LogLine(tmpl, me.err),
                                     !.resp = HandleErrorBody(tmpl, me.err)]]
    /\ UNCHANGED <<now, vehicles, tmpl, cls, bnd>>
    /\ UNCHANGED <<domVars, createOnly, docVars>>

----------------------------------------------------------------------------
(* The aggregate under a sequence of mutator calls *)

Call(op, id, isMain, err) ==
    [op |-> op, id |-> id, isMain |-> isMain, err |-> err,
     prePictures |-> Pictures, preDocuments |-> Documents]

NewAggregate ==
    /\ Pictures = <<>>
    /\ Documents = <<>>
    /\ last = [op |-> "new", id |-> 0, isMain |-> FALSE, err |-> "nil",
               prePictures |-> <<>>, preDocuments |-> <<>>]

DomInit ==
    /\ NewAggregate
    /\ now = 1
    /\ EmptyStore
    /\ Idle
    /\ SvcIdle

CallAddPicture ==
    \E id \in PicIDs, isMain \in BOOLEAN :
        LET r == Vehicle_AddPicture(Pictures, [ID |-> id, IsMain |-> isMain]) IN
        /\ Pictures' = r.list
        /\ last' = Call("AddPicture", id, isMain, r.err)
        /\ UNCHANGED Documents
        /\ UNCHANGED createVars
        /\ UNCHANGED svcVars

CallRemovePicture ==
    \E id \in PicIDs :
        LET r == Vehicle_RemovePicture(Pictures, id) IN
        /\ Pictures' = r.list
        /\ last' = Call("RemovePicture", id, FALSE, r.err)
        /\ UNCHANGED Documents
        /\ UNCHANGED createVars
        /\ UNCHANGED svcVars

CallSetMainPicture ==
    \E id \in PicIDs :
        LET r == Vehicle_SetMainPicture(Pictures, id) IN
        /\ Pictures' = r.list
        /\ last' = Call("SetMainPicture", id, FALSE, r.err)
        /\ UNCHANGED Documents
        /\ UNCHANGED createVars
        /\ UNCHANGED svcVars

CallAddDocument ==
    \E id \in DocIDs :
        LET r == Vehicle_AddDocument(Documents, [ID |-> id]) IN
        /\ Documents' = r.list
        /\ last' = Call("AddDocument", id, FALSE, r.err)
        /\ UNCHANGED Pictures
        /\ UNCHANGED createVars
        /\ UNCHANGED svcVars

CallRemoveDocument ==
    \E id \in DocIDs :
        LET r == Vehicle_RemoveDocument(Documents, id) IN
        /\ Documents' = r.list
        /\ last' = Call("RemoveDocument", id, FALSE, r.err)
        /\ UNCHANGED Pictures
        /\ UNCHANGED createVars
        /\ UNCHANGED svcVars

DomNext ==
    \/ CallAddPicture
    \/ CallRemovePicture
    \/ CallSetMainPicture
    \/ CallAddDocument
    \/ CallRemoveDocument

Init == DomInit

Next == DomNext

Spec == Init /\ [][Next]_vars

\* concurrent create-vehicle requests on an empty collection
CreateInit ==
    /\ NewAggregate
    /\ now = 1
    /\ EmptyStore
    /\ Idle
    /\ SvcIdle

CreateNext ==
    \/ \E r \in Reqs : Receive(r, CreateRequests)
    \/ \E r \in Reqs : LookupVIN(r)
    \/ \E r \in Reqs : LookupVehicle(r)
    \/ \E r \in Reqs : Build(r)
    \/ \E r \in Reqs : CreateTx(r)
    \/ \E r \in Reqs : GetVehicle(r)
    \/ Tick

SpecCreate == CreateInit /\ [][CreateNext]_vars

\* one create-vehicle request, every field in every form, on a collection
\* that holds one vehicle created earlier in the same second
NormInit ==
    /\ NewAggregate
    /\ now = 1
    /\ LET v == BuildVehicle([VIN |-> VinA, Make |-> MakeCore, LicensePlate |-> PlateCore,
                              OwnerName |-> NameCore, OwnerEmail |-> EmailCore], now)
       IN  /\ vehicles = (v.ID :> v)
           /\ vinIndex = (v.VIN :> v.ID)
    /\ Idle
    /\ SvcIdle

NormNext ==
    \/ Receive(1, NormRequests)
    \/ LookupVIN(1)
    \/ LookupVehicle(1)
    \/ Build(1)
    \/ CreateTx(1)
    \/ GetVehicle(1)
    \/ Tick

SpecNormalize == NormInit /\ [][NormNext]_vars

\* concurrent requests through the dispatch adapters on a collection that
\* holds one vehicle with one document
ServeInit ==
    /\ NewAggregate
    /\ now = 1
    /\ LET v == [BuildVehicle([VIN |-> VinA, Make |-> MakeCore, LicensePlate |-> PlateCore,
                               OwnerName |-> NameCore, OwnerEmail |-> EmailCore], now)
                   EXCEPT !.Documents = <<[ID |-> 1]>>]
       IN  /\ vehicles = (v.ID :> v)
           /\ vinIndex = (v.VIN :> v.ID)
    /\ Idle
    /\ SvcIdle

ServeNext ==
    \/ \E r \in Reqs : SrvBind(r)
    \/ \E r \in Reqs : SrvFetch(r)
    \/ \E r \in Reqs : SrvStore(r)
    \/ \E r \in Reqs : SrvGps(r)
    \/ \E r \in Reqs : SrvRender(r)
    \/ Tick

SpecServe == ServeInit /\ [][ServeNext]_vars

\* a sequential run: a request arrives when no other request is under way
NoneUnderWay == \A q \in Reqs : srv[q].pc \in {"idle", "done"}

SequentialNext ==
    \/ \E r \in Reqs : NoneUnderWay /\ SrvBind(r)
    \/ \E r \in Reqs : SrvFetch(r)
    \/ \E r \in Reqs : SrvStore(r)
    \/ \E r \in Reqs : SrvGps(r)
    \/ \E r \in Reqs : SrvRender(r)
    \/ Tick

SpecSequential == ServeInit /\ [][SequentialNext]_vars

----------------------------------------------------------------------------
(* Documents and their blobs: POST /vehicles/:id/documents and               *)
(* DELETE /vehicles/:id/documents/:doc_id (handleFiberCtx).  The blob store  *)
(* is a collaborator: an upload stores the blob under the name given or      *)
(* fails, a removal removes it or fails.                                     *)

\* the values of DocumentType
DocumentTypes ==
    {"insurance_policy", "insurance_card", "registration", "title", "inspection",
     "emission_test", "purchase_agreement", "service_record", "warranty", "receipt",
     "accident_report", "other"}

\* GenerateDocumentID: "DOC_" and the clock formatted to the second
GenerateDocumentID(t) == <<"DOC", t>>

\* blobFilename == ""
NoBlob == 0

\* the URL of a blob: the container's URL, "/" and the blob's name
FileURL(name) == <<"https:", "", "account", "documents", name>>

\* parts := strings.Split(doc.FileURL, "/"); parts[len(parts)-1]
LastPart(url) == IF Len(url) > 0 THEN url[Len(url)] ELSE NoBlob

\* the error of a collaborator's call that fails
DocFault == RawErr({}, <<"m1">>)

\* collection.Get of the vehicle document: a fault, a missing key, or the document
DocGet(vs, id, fails) ==
    IF fails THEN DocFault
    ELSE IF id \notin DOMAIN vs THEN RawErr({"ErrDocumentNotFound"}, <<"m1">>)
    ELSE NilErr

\* VehicleRepository.AddDocument: GetVehicle, Vehicle.AddDocument, UpdateVehicle
VehicleRepository_AddDocument(t, vs, vehicleID, document, clock, getErr, putErr) ==
    LET g == VehicleRepository_GetVehicle(t, vs, vehicleID, getErr) IN
    IF g.err.kind # "nil"
    THEN [tmpl |-> g.tmpl, vehicles |-> vs, err |-> g.err, dup |-> FALSE]
    ELSE LET a == Vehicle_AddDocument(g.vehicle.Documents, document) IN
         IF a.err # "nil"
         THEN [tmpl |-> WithDetails(g.tmpl, "ErrInvalidInput",
                                    Details("error", "document already exists", "", "", 0)),
               vehicles |-> vs, err |-> AppErr("ErrInvalidInput"), dup |-> TRUE]
         ELSE LET u == VehicleRepository_UpdateVehicle(
                           g.tmpl, vs, [g.vehicle EXCEPT !.Documents = a.list], clock, putErr)
              IN  [tmpl |-> u.tmpl, vehicles |-> u.vehicles, err |-> u.err, dup |-> FALSE]

\* the repository's DeleteDocument: GetVehicle, Vehicle.RemoveDocument, UpdateVehicle
VehicleRepository_DeleteDocument(t, vs, vehicleID, documentID, clock, getErr, putErr) ==
    LET g == VehicleRepository_GetVehicle(t, vs, vehicleID, getErr) IN
    IF g.err.kind # "nil"
    THEN [tmpl |-> g.tmpl, vehicles |-> vs, err |-> g.err]
    ELSE LET a == Vehicle_RemoveDocument(g.vehicle.Documents, documentID) IN
         IF a.err # "nil"
         THEN [tmpl |-> WithDetails(g.tmpl, "ErrInvalidInput",
                                    Details("error", "document not found", "", "", 0)),
               vehicles |-> vs, err |-> AppErr("ErrInvalidInput")]
         ELSE LET u == VehicleRepository_UpdateVehicle(
                           g.tmpl, vs, [g.vehicle EXCEPT !.Documents = a.list], clock, putErr)
              IN  [tmpl |-> u.tmpl, vehicles |-> u.vehicles, err |-> u.err]

\* what a handler leaves behind
Outcome(t, vs, bl, err, calls, failedAt, dup, logged) ==
    [tmpl |-> t, vehicles |-> vs, blobs |-> bl, err |-> err, calls |-> calls,
     failedAt |-> failedAt, dup |-> dup, logged |-> logged]

\* AddDocumentHandler.Handle.  expiry and issued are "" (absent), "ok" or
\* "bad" (not RFC 3339); name is the UUID of the blob; failAt names the
\* collaborator call that fails, if one does.
AddDocumentHandler_Handle(t, vs, bl, vehicleID, type, expiry, issued, name, failAt, clock) ==
    LET g == VehicleRepository_GetVehicle(t, vs, vehicleID,
                                          DocGet(vs, vehicleID, failAt = "get"))
    IN
    IF g.err.kind # "nil"
    THEN Outcome(g.tmpl, vs, bl, g.err, <<"Get">>, "get", FALSE, FALSE)
    ELSE IF failAt = "form"
    THEN Outcome(WithCause(t, "ErrInternalServer", DocFault), vs, bl,
                 AppErr("ErrInternalServer"), <<"Get">>, "form", FALSE, FALSE)
    ELSE IF failAt = "upload"
    THEN Outcome(WithCause(t, "ErrInternalServer", DocFault), vs, bl,
                 AppErr("ErrInternalServer"), <<"Get", "Upload">>, "upload", FALSE, FALSE)
    ELSE
    LET kept == bl \cup {name} IN
    IF expiry = "bad"
    THEN Outcome(WithDetails(t, "ErrInvalidFormat",
                             Details("field", "expiry_date", "message",
                                     "must be in RFC3339 format", 0)),
                 vs, kept, AppErr("ErrInvalidFormat"), <<"Get", "Upload">>,
                 "expiry_date", FALSE, FALSE)
    ELSE IF issued = "bad"
    THEN Outcome(WithDetails(t, "ErrInvalidFormat",
                             Details("field", "issued_date", "message",
                                     "must be in RFC3339 format", 0)),
                 vs, kept, AppErr("ErrInvalidFormat"), <<"Get", "Upload">>,
                 "issued_date", FALSE, FALSE)
    ELSE
    LET document == [ID |-> GenerateDocumentID(clock), Type |-> type, FileURL |-> FileURL(name)]
        a == VehicleRepository_AddDocument(t, vs, vehicleID, document, clock,
                                           DocGet(vs, vehicleID, failAt = "repo_get"),
                                           IF failAt = "replace" THEN DocFault ELSE NilErr)
    IN
    IF a.err.kind # "nil"
    THEN Outcome(WithDetails(WithCause(a.tmpl, "ErrDatabaseQuery", a.err), "ErrDatabaseQuery",
                             Details("operation", "add_document", "", "", 0)),
                 vs, kept, AppErr("ErrDatabaseQuery"), <<"Get", "Upload", "AddDocument">>,
                 "add_document", a.dup, FALSE)
    ELSE Outcome(a.tmpl, a.vehicles, kept, NilErr, <<"Get", "Upload", "AddDocument">>,
                 "", FALSE, FALSE)

\* the file name the handler finds for the document, "" when the vehicle has
\* no such document
BlobOf(docs, documentID) ==
    IF HasID(docs, documentID) THEN LastPart(docs[IndexOfID(docs, documentID)].FileURL)
    ELSE NoBlob

\* A delete-document handler that removes the blob before it deletes the record
Mut_DeleteDocumentHandler_BlobFirst(t, vs, bl, vehicleID, documentID, failAt, clock) ==
    LET g == VehicleRepository_GetVehicle(t, vs, vehicleID,
                                          DocGet(vs, vehicleID, failAt = "get"))
    IN
    IF g.err.kind # "nil"
    THEN Outcome(g.tmpl, vs, bl, g.err, <<"Get">>, "get", FALSE, FALSE)
    ELSE
    LET blobFilename == BlobOf(g.vehicle.Documents, documentID)
        left == IF failAt = "remove" THEN bl ELSE bl \ {blobFilename}
        d == VehicleRepository_DeleteDocument(
                 t, vs, vehicleID, documentID, clock,
                 DocGet(vs, vehicleID, failAt = "repo_get"),
                 IF failAt = "replace" THEN DocFault ELSE NilErr)
    IN
    IF d.err.kind # "nil"
    THEN Outcome(d.tmpl, vs, left, d.err, <<"Get", "Remove", "DeleteDocument">>,
                 "delete_document", FALSE, FALSE)
    ELSE Outcome(d.tmpl, d.vehicles, left, NilErr, <<"Get", "Remove", "DeleteDocument">>,
                 "", FALSE, failAt = "remove")

\* DeleteDocumentHandler.Handle
DeleteDocumentHandler_Handle(t, vs, bl, vehicleID, documentID, failAt, clock) ==
    LET g == VehicleRepository_GetVehicle(t, vs, vehicleID,
                                          DocGet(vs, vehicleID, failAt = "get"))
    IN
    IF g.err.kind # "nil"
    THEN Outcome(g.tmpl, vs, bl, g.err, <<"Get">>, "get", FALSE, FALSE)
    ELSE
    LET blobFilename == BlobOf(g.vehicle.Documents, documentID)
        d == VehicleRepository_DeleteDocument(
                 t, vs, vehicleID, documentID, clock,
                 DocGet(vs, vehicleID, failAt = "repo_get"),
                 IF failAt = "replace" THEN DocFault ELSE NilErr)
    IN
    IF d.err.kind # "nil"
    THEN Outcome(d.tmpl, vs, bl, d.err, <<"Get", "DeleteDocument">>,
                 "delete_document", FALSE, FALSE)
    ELSE IF blobFilename = NoBlob
    THEN Outcome(d.tmpl, d.vehicles, bl, NilErr, <<"Get", "DeleteDocument">>,
                 "", FALSE, FALSE)
    ELSE IF failAt = "remove"
    THEN Outcome(d.tmpl, d.vehicles, bl, NilErr, <<"Get", "DeleteDocument", "Remove">>,
                 "", FALSE, TRUE)
    ELSE Outcome(d.tmpl, d.vehicles, bl \ {blobFilename}, NilErr,
                 <<"Get", "DeleteDocument", "Remove">>, "", FALSE, FALSE)

\* the form values and the faults of a request
TypeInputs == {"insurance_policy", "bogus", ""}

AddFaults == {"get", "form", "upload", "repo_get", "replace"}

AddInput(vehicleID, type, expiry, issued, failAt, bodyRes) ==
    [vehicleID |-> vehicleID, type |-> type, expiry |-> expiry, issued |-> issued,
     failAt |-> failAt, bodyRes |-> bodyRes]

\* add-document requests: a body that does not parse; dates that are absent,
\* well-formed or malformed; a collaborator call that fails
AddInputs ==
    {AddInput(id, "insurance_policy", "", "", "", "fail") : id \in PathIDs}
        \cup {AddInput(id, type, d[1], d[2], "", "ok") :
                 id \in PathIDs, type \in TypeInputs,
                 d \in {<<"ok", "">>, <<"bad", "ok">>, <<"", "bad">>}}
        \cup {AddInput(id, type, "", "ok", f, "ok") :
                 id \in PathIDs, type \in TypeInputs, f \in AddFaults}

DeleteFaults == {"", "get", "repo_get", "replace", "remove"}

\* the sources of a document request: a multipart body that parses or not
DocSources(bodyRes, vehicleID) ==
    [body |-> Source(bodyRes, NoFields), params |-> Source("ok", "ID" :> vehicleID),
     query |-> Source("ok", NoFields), headers |-> Source("ok", NoFields)]

\* the stored vehicle's documents
DocumentsOf(vs, id) == IF id \in DOMAIN vs THEN vs[id].Documents ELSE <<>>

\* handleFiberCtx after handler.Handle: HandleError or c.JSON; the record of
\* the request
Answer(rq, o) ==
    IF o.err.kind # "nil" /\ CauseLoops(o.tmpl, LoggedCause(o.tmpl, o.err), {})
    THEN [rq EXCEPT !.pc = "crashed", !.err = o.err, !.calls = o.calls,
                    !.failedAt = o.failedAt, !.dup = o.dup]
    ELSE [rq EXCEPT !.pc = "done", !.err = o.err, !.calls = o.calls,
                    !.failedAt = o.failedAt, !.dup = o.dup, !.logged = o.logged,
                    !.resp = IF o.err.kind = "nil" THEN Success("json")
                             ELSE HandleErrorBody(o.tmpl, o.err)]

\* POST /vehicles/:id/documents
AddDocumentRequest ==
    /\ docreq.pc # "crashed"
    /\ docreq.uploads < MaxUploads
    /\ \E in \in AddInputs :
          LET b == Binder(HandleOrder, DocSources(in.bodyRes, in.vehicleID))
              name == docreq.uploads + 1
              rq == [NoDocReq EXCEPT !.op = "add", !.vehicleID = in.vehicleID,
                                     !.type = in.type,
                                     !.uploads = docreq.uploads, !.preBlobs = blobs,
                                     !.preDocuments = DocumentsOf(vehicles, in.vehicleID)]
              o == AddDocumentHandler_Handle(tmpl, vehicles, blobs, in.vehicleID, in.type,
                                             in.expiry, in.issued, name, in.failAt, now)
          IN  IF b.failed # ""
              THEN /\ docreq' = [rq EXCEPT !.pc = "done", !.failedAt = "bind",
                                           !.resp = BindFailure(b.failed)]
                   /\ UNCHANGED <<tmpl, vehicles, blobs>>
              ELSE /\ docreq' = [Answer(rq, o) EXCEPT
                                   !.name = IF Len(o.calls) >= 2 THEN name ELSE 0,
                                   !.uploads = IF Len(o.calls) >= 2 THEN name ELSE @]
                   /\ tmpl' = o.tmpl
                   /\ vehicles' = o.vehicles
                   /\ blobs' = o.blobs
    /\ UNCHANGED <<now, vinIndex, srv, cls, bnd, calc>>
    /\ UNCHANGED <<domVars, reqVars>>

\* DELETE /vehicles/:id/documents/:doc_id
DeleteDocumentRequest ==
    /\ docreq.pc # "crashed"
    /\ \E vehicleID \in PathIDs, c \in 1..MaxClock, failAt \in DeleteFaults :
          LET documentID == GenerateDocumentID(c)
              rq == [NoDocReq EXCEPT !.op = "delete", !.vehicleID = vehicleID,
                                     !.documentID = documentID,
                                     !.name = BlobOf(DocumentsOf(vehicles, vehicleID),
                                                     documentID),
                                     !.uploads = docreq.uploads, !.preBlobs = blobs,
                                     !.preDocuments = DocumentsOf(vehicles, vehicleID)]
              o == DeleteDocumentHandler_Handle(tmpl, vehicles, blobs, vehicleID, documentID,
                                                failAt, now)
          IN  /\ docreq' = Answer(rq, o)
              /\ tmpl' = o.tmpl
              /\ vehicles' = o.vehicles
              /\ blobs' = o.blobs
    /\ UNCHANGED <<now, vinIndex, srv, cls, bnd, calc>>
    /\ UNCHANGED <<domVars, reqVars>>

DocsInit ==
    /\ NewAggregate
    /\ now = 1
    /\ LET v == BuildVehicle([VIN |-> VinA, Make |-> MakeCore, LicensePlate |-> PlateCore,
                              OwnerName |-> NameCore, OwnerEmail |-> EmailCore], now)
       IN  /\ vehicles = (v.ID :> v)
           /\ vinIndex = (v.VIN :> v.ID)
    /\ Idle
    /\ SvcIdle

DocsNext ==
    \/ AddDocumentRequest
    \/ DeleteDocumentRequest
    \/ Tick

SpecDocs == DocsInit /\ [][DocsNext]_vars

----------------------------------------------------------------------------
(* Computations on dates.  An instant is a number of clock ticks, TicksPerDay *)
(* to the day; a day is its number.                                           *)

Days(n) == n * TicksPerDay

\* Vehicle.IsInsuranceExpired: time.Now().After(v.Insurance.EndDate)
IsInsuranceExpired(insurance, t) == t > insurance.EndDate

\* Vehicle.IsInsuranceExpiringSoon: EndDate.Before(time.Now().AddDate(0, 0, days))
IsInsuranceExpiringSoon(insurance, t, days) == insurance.EndDate < t + Days(days)

\* A status that looks at the end date before it looks at the flag
Mut_GetInsuranceStatus_DateFirst(insurance, t1, t2) ==
    IF IsInsuranceExpired(insurance, t1) THEN "expired"
    ELSE IF ~insurance.IsActive THEN "inactive"
    ELSE IF IsInsuranceExpiringSoon(insurance, t2, 30) THEN "expiring_soon"
    ELSE "active"

\* Vehicle.GetInsuranceStatus.  t1 and t2 are the clock as IsInsuranceExpired
\* and IsInsuranceExpiringSoon read it.
GetInsuranceStatus(insurance, t1, t2) ==
    IF ~insurance.IsActive THEN "inactive"
    ELSE IF IsInsuranceExpired(insurance, t1) THEN "expired"
    ELSE IF IsInsuranceExpiringSoon(insurance, t2, 30) THEN "expiring_soon"
    ELSE "active"

\* insurances whose end date lies from two days before the call to
\* HorizonDays after it; the call is at the instant 0
InsuranceInputs ==
    {[pc |-> "in", IsActive |-> a, EndDate |-> e, t1 |-> 0, t2 |-> 0, out |-> ""] :
        a \in BOOLEAN, e \in (0 - Days(2))..Days(HorizonDays)}

InsuranceInit ==
    /\ NewAggregate
    /\ now = 1
    /\ EmptyStore
    /\ Idle
    /\ tmpl = FreshTemplates
    /\ srv = [r \in Reqs |-> NoSrv]
    /\ cls = NoCls
    /\ bnd = NoBnd
    /\ blobs = {}
    /\ docreq = NoDocReq
    /\ calc \in InsuranceInputs

\* a call of GetInsuranceStatus; the clock may advance between its two reads
InsuranceStatusCall ==
    /\ calc.pc = "in"
    /\ \E lag \in 0..MaxLag :
          calc' = [calc EXCEPT !.pc = "insurance", !.t2 = calc.t1 + lag,
                               !.out = GetInsuranceStatus(calc, calc.t1, calc.t1 + lag)]
    /\ UNCHANGED <<now, vehicles, tmpl, srv, cls, bnd, blobs, docreq>>
    /\ UNCHANGED <<domVars, createOnly>>

InsuranceNext == InsuranceStatusCall

SpecInsurance == InsuranceInit /\ [][InsuranceNext]_vars

\* time.Date(y, m, d, 0, 0, 0, 0, loc) of the instant t, in the zone that is
\* off ticks ahead of UTC
StartOfDay(t, off) == ((t + off) \div TicksPerDay) * TicksPerDay - off

\* time.Date(y, m, d, 23, 59, 59, 999999999, loc): the day's last instant
EndOfDay(t, off) == StartOfDay(t, off) + TicksPerDay - 1

\* t.Truncate(24 * time.Hour): rounds down to a multiple of 24 hours since the
\* zero time, which is a midnight of UTC
Truncate24h(t) == (t \div TicksPerDay) * TicksPerDay

\* time.Parse("2006-01-02", s) of a well-formed date: that day's midnight, UTC
ParseDate(day) == Days(day)

\* a date parameter: absent (""), not a date, or a date
DateParam(kind, day) == [kind |-> kind, day |-> day]

\* GetGPSDataHandler.Handle: the range it queries.  t1 and t2 are the clock as
\* the two defaults read it.
GpsRange(start, end, t1, t2, off) ==
    [startDate |-> IF start.kind = "absent" THEN StartOfDay(t1, off)
                   ELSE IF start.kind = "bad" THEN Truncate24h(t1)
                   ELSE ParseDate(start.day),
     endDate   |-> IF end.kind = "absent" THEN EndOfDay(t2, off)
                   ELSE IF end.kind = "bad" THEN t2
                   ELSE EndOfDay(ParseDate(end.day), 0)]

DateParams ==
    {DateParam("absent", 0), DateParam("bad", 0)}
        \cup {DateParam("date", d) : d \in 0..1}

\* the server's zone: behind UTC, UTC, ahead of UTC
ZoneOffsets == {0 - 1, 0, 1}

GpsInputs ==
    {[pc |-> "in", start |-> sd, end |-> ed, t1 |-> t, t2 |-> t, off |-> off,
      startDate |-> 0, endDate |-> 0, status |-> 0] :
        sd \in DateParams, ed \in DateParams, t \in Days(1)..(Days(3) - 1),
        off \in ZoneOffsets}

GpsInit ==
    /\ NewAggregate
    /\ now = 1
    /\ EmptyStore
    /\ Idle
    /\ tmpl = FreshTemplates
    /\ srv = [r \in Reqs |-> NoSrv]
    /\ cls = NoCls
    /\ bnd = NoBnd
    /\ blobs = {}
    /\ docreq = NoDocReq
    /\ calc \in GpsInputs

\* GET of the GPS data: the handler computes the range and queries; the
\* repository returns the items or the error of the query
GpsQuery ==
    /\ calc.pc = "in"
    /\ \E lag \in 0..MaxLag, dbErr \in {NilErr, DocFault} :
          LET r == GpsRange(calc.start, calc.end, calc.t1, calc.t1 + lag, calc.off) IN
          calc' = [calc EXCEPT !.pc = "gps", !.t2 = calc.t1 + lag,
                               !.startDate = r.startDate, !.endDate = r.endDate,
                               !.status = IF dbErr.kind = "nil" THEN 200 ELSE 500]
    /\ UNCHANGED <<now, vehicles, tmpl, srv, cls, bnd, blobs, docreq>>
    /\ UNCHANGED <<domVars, createOnly>>

GpsNext == GpsQuery

SpecGps == GpsInit /\ [][GpsNext]_vars

\* the classifiers on one storage error: a message of up to MaxWords words, or
\* an error that wraps some of the client's sentinel errors
Vocabulary ==
    {"key", "not", "found", "duplicate", "already", "exists", "timeout", "TIMEOUT",
     "connection", "cluster", "unauthorized"}

Sentinels == {"ErrDocumentNotFound", "ErrDocumentExists", "TimeoutError"}

ClassifierErrors ==
    {RawErr({}, m) : m \in UNION {[1..k -> Vocabulary] : k \in 0..MaxWords}}
        \cup {RawErr(k, <<"failed">>) : k \in SUBSET Sentinels}

ClassifierOps == {"get_vehicle", "create_product"}

ClassifyInit ==
    /\ NewAggregate
    /\ now = 1
    /\ EmptyStore
    /\ Idle
    /\ tmpl = FreshTemplates
    /\ srv = [r \in Reqs |-> NoSrv]
    /\ bnd = NoBnd
    /\ DocIdle
    /\ cls \in {[pc |-> "in", err |-> e, operation |-> op, out |-> NilErr] :
                  e \in ClassifierErrors, op \in ClassifierOps}

ClassifyProduct ==
    /\ cls.pc = "in"
    /\ LET c == Product_convertDBError(tmpl, cls.operation, cls.err) IN
          /\ tmpl' = c.tmpl
          /\ cls' = [cls EXCEPT !.pc = "product", !.out = c.err]
    /\ UNCHANGED <<now, vehicles, srv, bnd>>
    /\ UNCHANGED <<domVars, createOnly, docVars>>

ClassifyVehicle ==
    /\ cls.pc = "in"
    /\ LET c == Repo_convertDBError(tmpl, cls.operation, cls.err) IN
          /\ tmpl' = c.tmpl
          /\ cls' = [cls EXCEPT !.pc = "vehicle", !.out = c.err]
    /\ UNCHANGED <<now, vehicles, srv, bnd>>
    /\ UNCHANGED <<domVars, createOnly, docVars>>

ClassifyNext ==
    \/ ClassifyProduct
    \/ ClassifyVehicle

SpecClassify == ClassifyInit /\ [][ClassifyNext]_vars

\* the binder on one request: what each source holds
Carried(extra) ==
    {NoFields} \cup {"ID" :> id : id \in PathIDs}
        \cup {("ID" :> id) @@ e : id \in PathIDs, e \in extra}
        \cup extra

Sources(results, extra) ==
    {Source("ok", set) : set \in Carried(extra)}
        \cup {Source(res, NoFields) : res \in results \ {"ok"}}

BinderInputs ==
    {[body |-> b, params |-> p, query |-> q, headers |-> h] :
        b \in Sources({"ok", "fail", "unprocessable"}, {"UpdatedBy" :> "u"}),
        p \in Sources({"ok", "fail"}, {}),
        q \in Sources({"ok", "fail"}, {}),
        h \in Sources({"ok", "fail"}, {})}

BindInit ==
    /\ NewAggregate
    /\ now = 1
    /\ EmptyStore
    /\ Idle
    /\ tmpl = FreshTemplates
    /\ srv = [r \in Reqs |-> NoSrv]
    /\ cls = NoCls
    /\ DocIdle
    /\ bnd \in {[pc |-> "in", in |-> i, out |-> NoBnd.out] : i \in BinderInputs}

\* handle, handleFiberCtx: the four parsers on var req R
BndHandle ==
    /\ bnd.pc = "in"
    /\ bnd' = [bnd EXCEPT !.pc = "handle", !.out = Binder(HandleOrder, bnd.in)]
    /\ UNCHANGED <<now, vehicles, tmpl, srv, cls>>
    /\ UNCHANGED <<domVars, createOnly, docVars>>

\* handleRaw: the two parsers on var req R
BndRaw ==
    /\ bnd.pc = "in"
    /\ bnd' = [bnd EXCEPT !.pc = "raw", !.out = Binder(RawOrder, bnd.in)]
    /\ UNCHANGED <<now, vehicles, tmpl, srv, cls>>
    /\ UNCHANGED <<domVars, createOnly, docVars>>

BindNext ==
    \/ BndHandle
    \/ BndRaw

SpecBind == BindInit /\ [][BindNext]_vars

----------------------------------------------------------------------------
(* Properties of the aggregate *)

IDsOf(s) == [k \in 1..Len(s) |-> s[k].ID]

MainIDs(pics) == {pics[k].ID : k \in {j \in 1..Len(pics) : pics[j].IsMain}}

Distinct(s) == \A i, j \in 1..Len(s) : i # j => s[i].ID # s[j].ID

\* the IDs of s, in order, without id
RECURSIVE IDsWithout(_, _)
IDsWithout(s, id) ==
    IF Len(s) = 0 THEN <<>>
    ELSE IF Head(s).ID = id THEN IDsWithout(Tail(s), id)
    ELSE <<Head(s).ID>> \o IDsWithout(Tail(s), id)

\* C1: after any sequence of AddPicture (any is_main), RemovePicture and
\* SetMainPicture calls from a vehicle without pictures, at most one picture
\* of the list has IsMain = TRUE.
C1_AtMostOneMain ==
    Cardinality({k \in 1..Len(Pictures) : Pictures[k].IsMain}) <= 1

\* C2: AddDocument and AddPicture fail on an ID that is already in the list and
\* leave the list unchanged; so the document IDs are pairwise distinct and the
\* picture IDs are pairwise distinct after any sequence of adds and removes.
C2_DuplicateIDRejected ==
    /\ Distinct(Pictures)
    /\ Distinct(Documents)
    /\ (last.op = "AddPicture" /\ HasID(last.prePictures, last.id))
          => (last.err = "exists" /\ Pictures = last.prePictures)
    /\ (last.op = "AddDocument" /\ HasID(last.preDocuments, last.id))
          => (last.err = "exists" /\ Documents = last.preDocuments)

C2_Witness ==
    /\ last.op = "AddDocument"
    /\ last.err = "exists"
    /\ Len(Documents) = 2
    /\ Len(Pictures) >= 2

\* C3: AddPicture on a vehicle with zero pictures stores the picture with
\* IsMain = TRUE whatever is_main the caller passed; an AddPicture on a vehicle
\* that has pictures leaves every earlier picture, the first one's IsMain
\* included, as it was.
C3_FirstPictureIsMain ==
    last.op = "AddPicture" =>
        /\ Len(last.prePictures) = 0 =>
              /\ last.err = "nil"
              /\ Len(Pictures) = 1
              /\ Pictures[1].ID = last.id
              /\ Pictures[1].IsMain
        /\ Len(last.prePictures) > 0 =>
              /\ Len(Pictures) >= Len(last.prePictures)
              /\ \A k \in 1..Len(last.prePictures) : Pictures[k] = last.prePictures[k]

C3_Witness ==
    /\ last.op = "AddPicture"
    /\ Len(last.prePictures) = 0
    /\ last.isMain = FALSE
    /\ Len(Pictures) = 1
    /\ Pictures[1].IsMain

\* C4: SetMainPicture(id) returns a not-found error when no picture has that
\* id; when one has it, afterwards that picture is main and every other
\* picture is not.
C4_SetMainPicture ==
    last.op = "SetMainPicture" =>
        IF HasID(last.prePictures, last.id)
        THEN /\ last.err = "nil"
             /\ IDsOf(Pictures) = IDsOf(last.prePictures)
             /\ \A k \in 1..Len(Pictures) :
                    Pictures[k].IsMain <=> (Pictures[k].ID = last.id)
        ELSE last.err = "not_found"

C4_Witness ==
    /\ last.op = "SetMainPicture"
    /\ last.err = "nil"
    /\ Len(Pictures) = 3
    /\ last.id \notin MainIDs(last.prePictures)
    /\ MainIDs(last.prePictures) # {}

\* C5: RemovePicture of a main picture makes the first remaining picture (in
\* list order) main, or leaves the list empty; every other remaining picture
\* keeps its flag, so a unique main is replaced by a unique main; removing a
\* picture that is not main does not change which pictures are main.
C5_RemovePicturePromotes ==
    (last.op = "RemovePicture" /\ last.err = "nil") =>
        /\ IDsOf(Pictures) = IDsWithout(last.prePictures, last.id)
        /\ IF last.id \in MainIDs(last.prePictures)
           THEN MainIDs(Pictures) =
                    (MainIDs(last.prePictures) \ {last.id})
                        \cup (IF Len(Pictures) > 0 THEN {Pictures[1].ID} ELSE {})
           ELSE MainIDs(Pictures) = MainIDs(last.prePictures)

C5_Witness ==
    /\ last.op = "RemovePicture"
    /\ last.err = "nil"
    /\ MainIDs(last.prePictures) = {last.id}
    /\ Len(Pictures) = 2
    /\ MainIDs(Pictures) = {Pictures[1].ID}

\* C6: RemoveDocument and RemovePicture with an ID that matches no element
\* return a not-found error and leave the document list and the picture list
\* (elements, order, IsMain flags) exactly as they were.
C6_RemoveMissingLeavesLists ==
    /\ (last.op = "RemovePicture" /\ ~HasID(last.prePictures, last.id)) =>
          /\ last.err = "not_found"
          /\ Pictures = last.prePictures
          /\ Documents = last.preDocuments
    /\ (last.op = "RemoveDocument" /\ ~HasID(last.preDocuments, last.id)) =>
          /\ last.err = "not_found"
          /\ Pictures = last.prePictures
          /\ Documents = last.preDocuments

C6_Witness ==
    /\ last.op = "RemoveDocument"
    /\ last.err = "not_found"
    /\ Len(Documents) >= 1
    /\ Len(Pictures) >= 2

----------------------------------------------------------------------------
(* Properties of create-vehicle *)

Answered(r) == pc[r] \in {"done", "read"}

\* C7: a create-vehicle request whose VIN equals, after trimming blanks and
\* ignoring letter case, the VIN of a vehicle already stored fails with a
\* conflict error (HTTP 409), and the stored vehicle is not overwritten.
C7_DuplicateVINConflict ==
    \A r \in Reqs :
        (Answered(r) /\ stored[r] # NoVehicle) =>
            /\ resp[r].status = 409
            /\ resp[r].type = "conflict"
            /\ StoredUnder(req[r].VIN) = stored[r]

\* C8: under every interleaving of concurrent create-vehicle requests the
\* store never holds two vehicle documents with the same normalized VIN, and
\* the vin::<VIN> lookup document and the vehicle document exist together or
\* not at all.
C8_VINUniqueAndPaired ==
    /\ \A i, j \in DOMAIN vehicles :
          i # j => ToUpper(TrimSpace(vehicles[i].VIN)) # ToUpper(TrimSpace(vehicles[j].VIN))
    /\ \A k \in DOMAIN vinIndex :
          vinIndex[k] \in DOMAIN vehicles /\ vehicles[vinIndex[k]].VIN = k
    /\ \A i \in DOMAIN vehicles :
          vehicles[i].VIN \in DOMAIN vinIndex /\ vinIndex[vehicles[i].VIN] = i

\* two requests with the same VIN both passed the lookup; one transaction
\* committed and the other one failed on the existing key; a third vehicle
\* document could not be inserted under an ID already taken
C8_Witness ==
    \E r1, r2 \in Reqs :
        /\ r1 # r2
        /\ req[r1].VIN = req[r2].VIN
        /\ resp[r1].status = 200
        /\ fresh[r1]
        /\ resp[r2].repoErr = "RESOURCE_EXISTS"
        /\ ~fresh[r2]
        /\ Cardinality(DOMAIN vehicles) = 1
        /\ Cardinality(DOMAIN vinIndex) = 1

\* C9: for every valid create-vehicle request with a VIN not yet stored, the
\* response carries a non-empty ID and a non-zero createdAt, and a following
\* GetVehicle with that ID returns the request's VIN trimmed and upper-cased
\* and the request's owner email trimmed and lower-cased.
C9_CreateRoundTrip ==
    \A r \in Reqs :
        (Answered(r) /\ Validate(req[r]) = {} /\ fresh[r]) =>
            /\ resp[r].status = 200
            /\ resp[r].ID # NoID
            /\ resp[r].CreatedAt # 0
            /\ pc[r] = "read" =>
                  /\ got[r].VIN = ToUpper(TrimSpace(req[r].VIN))
                  /\ got[r].OwnerEmail = ToLower(TrimSpace(req[r].OwnerEmail))

\* the request with every field trimmed: what the handler stores of it
Trimmed(q) ==
    [VIN |-> TrimSpace(q.VIN), Make |-> TrimSpace(q.Make),
     LicensePlate |-> TrimSpace(q.LicensePlate), OwnerName |-> TrimSpace(q.OwnerName),
     OwnerEmail |-> TrimSpace(q.OwnerEmail)]

\* C10: the handler accepts a request whose VIN, make, license plate, owner
\* name and owner email carry surrounding blanks or mixed case (a
\* 17-character VIN padded with blanks included): it returns no error of its
\* own and passes the repository a vehicle with VIN and license plate trimmed
\* and upper-cased, owner email trimmed and lower-cased, and make trimmed.
C10_PaddedRequestAccepted ==
    \A r \in Reqs :
        (Answered(r) /\ Validate(Trimmed(req[r])) = {} /\ stored[r] = NoVehicle) =>
            /\ resp[r].status = 200 \/ resp[r].repoErr # ""
            /\ veh[r].VIN = ToUpper(TrimSpace(req[r].VIN))
            /\ veh[r].LicensePlate = ToUpper(TrimSpace(req[r].LicensePlate))
            /\ veh[r].OwnerEmail = ToLower(TrimSpace(req[r].OwnerEmail))
            /\ veh[r].Make = TrimSpace(req[r].Make)

----------------------------------------------------------------------------
(* Properties of the error model and the dispatch adapters *)

SrvAnswered(r) == srv[r].pc = "done"

SrvFailed(r) == SrvAnswered(r) /\ ~(srv[r].resp.status \in 200..299)

\* C11: WithDetails and WithCause leave their receiver unchanged: after any
\* sequence of requests every predefined error still has no details and no
\* cause.
C11_TemplatesUnchanged ==
    \A n \in Templates : tmpl[n].Details = NoDetails /\ tmpl[n].Cause = NilErr

\* C12: when requests are handled concurrently, the details of each error
\* response are the details its own request attached to the error, and the
\* cause in its log line is the cause its own request attached, under every
\* interleaving.
C12_OwnDetailsAndCause ==
    \A r \in Reqs :
        (SrvAnswered(r) /\ srv[r].via = "HandleError") =>
            /\ srv[r].hasDetails => srv[r].resp.details = srv[r].ownDetails
            /\ srv[r].hasCause => srv[r].log.text = srv[r].ownText

\* the vehicle an update leaves in the store, from the document the request
\* read: each field the request provides, every other field as read
UpdateOf(doc, rq) ==
    [doc EXCEPT
        !.LicensePlate = IF rq.LicensePlate = Unset THEN @
                         ELSE ToUpper(TrimSpace(rq.LicensePlate)),
        !.OwnerName    = IF rq.OwnerName = Unset THEN @ ELSE TrimSpace(rq.OwnerName),
        !.UpdatedBy    = rq.UpdatedBy]

SameButTime(v, w) == [v EXCEPT !.UpdatedAt = 0] = [w EXCEPT !.UpdatedAt = 0]

\* C13: the replace of an update carries no version check: an update whose
\* replace met no storage fault returns success, and the document it stored is
\* the document it read with its own changes, whatever was written in between;
\* so two concurrent updates of one vehicle can both succeed and leave only one
\* of the two changes in the store.
C13_ReplaceWithoutVersionCheck ==
    \A r \in Reqs :
        (srv[r].ep = "update" /\ SrvAnswered(r) /\ Len(srv[r].calls) = 2
            /\ srv[r].fault = NilErr) =>
            /\ srv[r].resp.status = 200
            /\ SameButTime(srv[r].wroteDoc, UpdateOf(srv[r].readDoc, srv[r].rq))

\* two updates of the same vehicle both returned success, one set the license
\* plate and the other the owner name, and the stored vehicle has the new owner
\* name with the old license plate
C13_Witness ==
    \E r1, r2 \in Reqs :
        /\ r1 # r2
        /\ srv[r1].ep = "update" /\ srv[r2].ep = "update"
        /\ srv[r1].rq.ID = srv[r2].rq.ID
        /\ srv[r1].resp.status = 200 /\ srv[r2].resp.status = 200
        /\ srv[r1].rq.LicensePlate # Unset /\ srv[r1].rq.OwnerName = Unset
        /\ srv[r2].rq.OwnerName # Unset /\ srv[r2].rq.LicensePlate = Unset
        /\ vehicles[srv[r1].rq.ID].OwnerName = TrimSpace(srv[r2].rq.OwnerName)
        /\ vehicles[srv[r1].rq.ID].LicensePlate = srv[r1].readDoc.LicensePlate
        /\ vehicles[srv[r1].rq.ID].LicensePlate # ToUpper(TrimSpace(srv[r1].rq.LicensePlate))

\* C14: when the repository returns a classified error to a business handler,
\* the error the handler returns, and so the response, has the same category,
\* code and HTTP status.
C14_ClassifiedErrorPassedThrough ==
    \A r \in Reqs :
        (SrvAnswered(r) /\ srv[r].ep = "update" /\ srv[r].repoErr # "") =>
            /\ srv[r].resp.type = Template(srv[r].repoErr).Type
            /\ srv[r].resp.code = Template(srv[r].repoErr).Code
            /\ srv[r].resp.status = Template(srv[r].repoErr).HTTPStatus

C17_ErrorBodyShape ==
    \A r \in Reqs :
        /\ srv[r].pc # "crashed"
        /\ SrvFailed(r) => srv[r].resp.shape = "error_object"

\* C18: no response contains the text of a collaborator's error: two requests
\* to the same endpoint with the same fields, whose calls fail in the same way
\* and differ only in the message of the collaborator's error, get the same
\* status and the same body.
C18_NoCollaboratorText ==
    \A r1, r2 \in Reqs :
        (/\ SrvAnswered(r1) /\ SrvAnswered(r2)
         /\ srv[r1].ep = srv[r2].ep
         /\ srv[r1].rq = srv[r2].rq
         /\ srv[r1].calls = srv[r2].calls
         /\ srv[r1].fault.kind = srv[r2].fault.kind
         /\ srv[r1].fault.is = srv[r2].fault.is) =>
            srv[r1].resp = srv[r2].resp

\* C19: a request whose storage call ran into its deadline is answered with a
\* timeout error (HTTP 408 or 504) on every endpoint, and no storage call is
\* attempted twice for it.
C19_TimeoutSurfaces ==
    \A r \in Reqs :
        (SrvAnswered(r) /\ "TimeoutError" \in srv[r].fault.is) =>
            /\ srv[r].resp.status \in {408, 504}
            /\ srv[r].resp.type = "timeout"
            /\ \A i, j \in 1..Len(srv[r].calls) :
                  i # j => srv[r].calls[i] # srv[r].calls[j]

----------------------------------------------------------------------------
(* Properties of the classifiers *)

Min(S) == CHOOSE x \in S : \A y \in S : x <= y

\* the rules of the message-based classifier, in order
ProductRules ==
    <<[name |-> "ErrResourceNotFound",
       phrases |-> {<<"document", "not", "found">>, <<"key", "not", "found">>}],
      [name |-> "ErrResourceExists",
       phrases |-> {<<"duplicate">>, <<"already", "exists">>, <<"unique", "constraint">>}],
      [name |-> "ErrRequestTimeout",
       phrases |-> {<<"timeout">>, <<"deadline", "exceeded">>}],
      [name |-> "ErrDatabaseConnection",
       phrases |-> {<<"connection">>, <<"network">>}]>>

\* the rules as the claim lists them
StatedRules ==
    <<ProductRules[1], ProductRules[2], ProductRules[3],
      [name |-> "ErrDatabaseConnection",
       phrases |-> {<<"connection">>, <<"network">>, <<"cluster">>}],
      [name |-> "ErrUnauthorized",
       phrases |-> {<<"auth">>, <<"unauthorized">>}]>>

\* the rules of the vehicle repository's classifier, in order
VehicleRules ==
    <<[name |-> "ErrResourceNotFound", is |-> "ErrDocumentNotFound"],
      [name |-> "ErrResourceExists", is |-> "ErrDocumentExists"],
      [name |-> "ErrRequestTimeout", is |-> "TimeoutError"]>>

PhraseHits(rules, m) ==
    {i \in 1..Len(rules) : \E p \in rules[i].phrases : Contains(LowerWords(m), p)}

SentinelHits(e) == {i \in 1..Len(VehicleRules) : VehicleRules[i].is \in e.is}

FirstOf(rules, hits) == IF hits = {} THEN "ErrDatabaseQuery" ELSE rules[Min(hits)].name

\* what every classification leaves in the error it returns
WrapsCause ==
    /\ cls.out.kind = "app"
    /\ tmpl[cls.out.name].Cause = cls.err
    /\ cls.out.name = "ErrDatabaseQuery" =>
          tmpl[cls.out.name].Details = Details("operation", cls.operation, "", "", 0)

----------------------------------------------------------------------------
(* Properties of the binder *)

Max(S) == CHOOSE x \in S : \A y \in S : x >= y

BodyPathQueryHeaders == <<"body", "params", "query", "headers">>

\* the sources, by their place in the order, that carry the field
Carriers(in, f) ==
    {i \in 1..Len(BodyPathQueryHeaders) :
        /\ in[BodyPathQueryHeaders[i]].res = "ok"
        /\ f \in DOMAIN in[BodyPathQueryHeaders[i]].set}

\* C20: the binder fills the request from the body, then the path parameters,
\* then the query parameters, then the headers, and a field holds the value of
\* the last source that carries it: the id is the path parameter even when the
\* body carries a different id (and neither query nor headers carry one).
C20_LaterSourceOverwrites ==
    (bnd.pc = "handle" /\ bnd.out.failed = "") =>
        /\ bnd.out.parsed = BodyPathQueryHeaders
        /\ \A f \in {"ID", "UpdatedBy"} :
              LET c == Carriers(bnd.in, f) IN
              bnd.out.req[f] = IF c = {} THEN ZeroRequest[f]
                               ELSE bnd.in[BodyPathQueryHeaders[Max(c)]].set[f]
        /\ Carriers(bnd.in, "ID") = {1, 2} => bnd.out.req.ID = bnd.in.params.set.ID

\* a request whose body and path carry different ids was bound to the path's
C20_Witness ==
    /\ bnd.pc = "handle"
    /\ bnd.out.failed = ""
    /\ Carriers(bnd.in, "ID") = {1, 2}
    /\ bnd.in.body.set.ID # bnd.in.params.set.ID
    /\ bnd.out.req.ID = bnd.in.params.set.ID

----------------------------------------------------------------------------
(* Properties of a request's course through the adapter *)

OrderOf(ep) == IF ep = "download" THEN <<"params", "query">> ELSE BodyPathQueryHeaders

\* C21: a source that fails to parse is answered 400 at once: no source after
\* it is parsed, the handler is not invoked and no repository or blob call is
\* made; the handler is invoked at most once, and only after every source
\* parsed.
C21_BindFailureStops ==
    \A r \in Reqs :
        /\ srv[r].failedAt # "" =>
              /\ srv[r].pc = "done"
              /\ srv[r].resp.status = 400
              /\ srv[r].parsed # <<>>
              /\ srv[r].parsed = SubSeq(OrderOf(srv[r].ep), 1, Len(srv[r].parsed))
              /\ srv[r].parsed[Len(srv[r].parsed)] = srv[r].failedAt
              /\ srv[r].handled = 0
              /\ srv[r].calls = <<>>
        /\ srv[r].handled <= 1
        /\ srv[r].handled = 1 =>
              /\ srv[r].failedAt = ""
              /\ srv[r].parsed = OrderOf(srv[r].ep)
        /\ srv[r].calls # <<>> => srv[r].handled = 1

\* an update whose body failed to parse was answered while another request's
\* handler ran
C21_Witness ==
    \E r, q \in Reqs :
        /\ srv[r].ep = "update"
        /\ srv[r].failedAt = "body"
        /\ srv[r].parsed = <<"body">>
        /\ srv[r].resp.status = 400
        /\ srv[q].handled = 1
        /\ srv[q].calls # <<>>

----------------------------------------------------------------------------
(* Properties of the document requests *)

Among(seq) == {seq[i] : i \in 1..Len(seq)}

DocDone(op) == docreq.pc = "done" /\ docreq.op = op /\ docreq.failedAt # "bind"

\* C22: delete-document removes the blob only after the repository deleted the
\* document: when a repository call fails no blob is removed and the error is
\* returned; when the removal of the blob fails the request still succeeds and
\* the failure is only logged.
C22_BlobRemovedAfterRecord ==
    DocDone("delete") =>
        /\ docreq.err.kind # "nil" =>
              /\ blobs = docreq.preBlobs
              /\ "Remove" \notin Among(docreq.calls)
              /\ docreq.resp.status >= 400
        /\ "Remove" \in Among(docreq.calls) =>
              /\ docreq.calls = <<"Get", "DeleteDocument", "Remove">>
              /\ ~HasID(DocumentsOf(vehicles, docreq.vehicleID), docreq.documentID)
              /\ docreq.resp.status = 200
        /\ docreq.logged =>
              /\ docreq.resp.status = 200
              /\ blobs = docreq.preBlobs
        /\ (docreq.err.kind = "nil" /\ ~docreq.logged) =>
              blobs = docreq.preBlobs \ {docreq.name}

\* a document and its blob were both removed, the blob after the record
C22_Witness ==
    /\ DocDone("delete")
    /\ docreq.calls = <<"Get", "DeleteDocument", "Remove">>
    /\ docreq.name \in docreq.preBlobs
    /\ docreq.name \notin blobs
    /\ HasID(docreq.preDocuments, docreq.documentID)
    /\ ~HasID(DocumentsOf(vehicles, docreq.vehicleID), docreq.documentID)

----------------------------------------------------------------------------
(* Properties of the computations on dates *)

\* C23: GetInsuranceStatus is inactive whenever the flag is false, whatever
\* the end date; otherwise expired when the end date is before now; otherwise
\* expiring_soon when the end date is less than 30 days after now; otherwise
\* active.  One day before now: expired; 10 days after: expiring_soon; 60 days
\* after: active.
C23_InsuranceStatus ==
    calc.pc = "insurance" =>
        /\ ~calc.IsActive => calc.out = "inactive"
        /\ (calc.IsActive /\ calc.EndDate < calc.t1) => calc.out = "expired"
        /\ (calc.IsActive /\ calc.EndDate >= calc.t1 /\ calc.EndDate < calc.t1 + Days(30)) =>
              calc.out = "expiring_soon"
        /\ (calc.IsActive /\ calc.EndDate >= calc.t2 + Days(30)) => calc.out = "active"
        /\ calc.IsActive => calc.out \in {"expired", "expiring_soon", "active"}
        /\ (calc.IsActive /\ calc.EndDate = calc.t1 - Days(1)) => calc.out = "expired"
        /\ (calc.IsActive /\ calc.EndDate = calc.t1 + Days(10)) => calc.out = "expiring_soon"
        /\ (calc.IsActive /\ calc.EndDate = calc.t1 + Days(60)) => calc.out = "active"

\* an insurance that ended a day ago and is not active has the status inactive
C23_Witness ==
    /\ calc.pc = "insurance"
    /\ ~calc.IsActive
    /\ calc.EndDate = calc.t1 - Days(1)
    /\ calc.out = "inactive"

\* C24: an absent or unparseable start_date is replaced by today 00:00:00 and
\* an absent or unparseable end_date by today 23:59:59.999999999, server local
\* time; a valid end_date is extended to the end of its day.
C24_GpsDateDefaults ==
    calc.pc = "gps" =>
        /\ calc.start.kind \in {"absent", "bad"} =>
              calc.startDate = StartOfDay(calc.t1, calc.off)
        /\ calc.end.kind \in {"absent", "bad"} =>
              calc.endDate = EndOfDay(calc.t2, calc.off)
        /\ calc.end.kind = "date" =>
              calc.endDate = Days(calc.end.day) + TicksPerDay - 1

----------------------------------------------------------------------------
(* More properties of the aggregate and of the stored vehicles *)

\* C25: whenever the picture list is not empty at least one of its pictures is
\* main, after any sequence of AddPicture, RemovePicture and SetMainPicture
\* calls from a vehicle without pictures, failed calls included.
C25_SomeMainWhenNonEmpty ==
    Len(Pictures) > 0 => \E k \in 1..Len(Pictures) : Pictures[k].IsMain

\* C26: in a sequential run the details of an error response are those of the
\* request that produced it: a request that fails with a predefined error and
\* attaches no details of its own is answered without details.
C26_NoStaleDetails ==
    \A r \in Reqs :
        (SrvAnswered(r) /\ srv[r].via = "HandleError" /\ ~srv[r].hasDetails) =>
            srv[r].resp.details = NoDetails

\* C27: an add-document request that fails leaves no new blob: after the
\* request the uploaded blob and the document that refers to it are both
\* present or both absent.
C27_BlobAndRecordTogether ==
    (docreq.pc = "done" /\ docreq.op = "add") =>
        LET docs == DocumentsOf(vehicles, docreq.vehicleID) IN
        /\ docreq.err.kind # "nil" => blobs = docreq.preBlobs
        /\ \A b \in blobs \ docreq.preBlobs :
              \E k \in 1..Len(docs) : LastPart(docs[k].FileURL) = b
        /\ \A k \in 1..Len(docs) :
              docs[k] \notin Among(docreq.preDocuments) => LastPart(docs[k].FileURL) \in blobs

\* C28: separate requests get distinct generated IDs, also within one clock
\* second: a valid add-document request never fails because its generated ID
\* is that of a document the vehicle already has.
C28_GeneratedIDsDistinct ==
    (docreq.pc \in {"done", "crashed"} /\ docreq.op = "add"
        /\ docreq.type \in DocumentTypes) => ~docreq.dup

\* C29: every document stored through the add-document request has one of
\* the values of the document-type enum; a request with another type, or
\* none, is rejected and stores nothing.
C29_DocumentTypeClosed ==
    /\ \A id \in DOMAIN vehicles : \A k \in 1..Len(vehicles[id].Documents) :
          vehicles[id].Documents[k].Type \in DocumentTypes
    /\ (docreq.pc = "done" /\ docreq.op = "add" /\ docreq.type \notin DocumentTypes) =>
          /\ docreq.resp.status >= 400
          /\ DocumentsOf(vehicles, docreq.vehicleID) = docreq.preDocuments

\* the fields of a vehicle an update request does not carry
Kept(rq) ==
    {"ID", "VIN", "Make", "OwnerEmail", "CreatedAt", "Documents", "Pictures"}
        \cup (IF rq.LicensePlate = Unset THEN {"LicensePlate"} ELSE {})
        \cup (IF rq.OwnerName = Unset THEN {"OwnerName"} ELSE {})

Wrote(r) == srv[r].ep = "update" /\ srv[r].wroteDoc # NoVehicle

\* C30 as stated: an update changes, in the stored vehicle, only the fields the
\* request carries, updatedAt and updatedBy; an update that fails validation or
\* finds no vehicle writes nothing.
C30_UpdateFrameAsStated ==
    \A r \in Reqs :
        /\ Wrote(r) => \A f \in Kept(srv[r].rq) : srv[r].wroteDoc[f] = srv[r].preDoc[f]
        /\ (srv[r].ep = "update" /\ Len(srv[r].calls) < 2) => srv[r].wroteDoc = NoVehicle

\* C30 as amended: the vehicle an update stores is the vehicle it read with
\* only the fields the request carries, updatedAt and updatedBy changed (so,
\* when nothing was written in between, the stored vehicle with only those
\* changed); an update that fails validation or finds no vehicle makes no
\* write.
C30_UpdateFrame ==
    \A r \in Reqs :
        /\ Wrote(r) =>
              /\ \A f \in Kept(srv[r].rq) : srv[r].wroteDoc[f] = srv[r].readDoc[f]
              /\ srv[r].wroteDoc.UpdatedBy = srv[r].rq.UpdatedBy
              /\ srv[r].preDoc = srv[r].readDoc =>
                    \A f \in Kept(srv[r].rq) : srv[r].wroteDoc[f] = srv[r].preDoc[f]
        /\ (srv[r].ep = "update" /\ SrvAnswered(r) /\ Len(srv[r].calls) < 2) =>
              /\ srv[r].wroteDoc = NoVehicle
              /\ "Replace" \notin Among(srv[r].calls)
              /\ srv[r].resp.status >= 400

\* an update that carried a license plate stored it and kept the owner name,
\* and another update was refused by the validation and wrote nothing
C30_Witness ==
    \E r, q \in Reqs :
        /\ Wrote(r)
        /\ srv[r].rq.LicensePlate # Unset
        /\ srv[r].rq.OwnerName = Unset
        /\ srv[r].wroteDoc.LicensePlate # srv[r].preDoc.LicensePlate
        /\ srv[r].wroteDoc.OwnerName = srv[r].preDoc.OwnerName
        /\ srv[q].ep = "update"
        /\ SrvAnswered(q)
        /\ srv[q].calls = <<>>
        /\ srv[q].resp.code = "INVALID_INPUT"

====
